---- MODULE Spec2Model ----
(***************************************************************************)
(* A model of the deno-serialport port session (src/core/serialport.ts)    *)
(* over the syscall bridge (src/ffi/libc.ts) and a nondeterministic        *)
(* kernel: descriptor table, device attributes, modem-control word and     *)
(* receive queue.  Synchronous methods are one atomic action each; the     *)
(* asynchronous read() and write() are split at their await points.        *)
(***************************************************************************)
EXTENDS Integers, Sequences, FiniteSets, TLC

(* ------------------------------ bounds --------------------------------- *)
\* longest payload handed to write()
MaxData == 3
\* bytes the device delivers to the receive queue over a run
MaxRx == 2
\* largest highWaterMark / explicit read size tried
MaxHwm == 2
\* would-block results tolerated by one write() before the model stops retrying
MaxRetry == 1
\* readable streams created over a run
MaxStreams == 2
\* bytes written to a parser's stream over a run
MaxInput == 5

(* --------------------------- program constants ------------------------- *)
\* ERRNO table, src/ffi/types.ts
EPERM == 1
ENOENT == 2
EIO == 5
EBADF == 9
EAGAIN == 11
EACCES == 13
EBUSY == 16
ENODEV == 19
EINVAL == 22
ENOTTY == 25
EAGAIN_MACOS == 35
\* TIOCM table, src/ffi/types.ts
TIOCM_LE == 1
TIOCM_DTR == 2
TIOCM_RTS == 4
TIOCM_CTS == 32
TIOCM_CD == 64
TIOCM_RI == 128
TIOCM_DSR == 256
\* chunk size of write(): a stand-in for the value of core/constants.ts,
\* small enough that a payload of MaxData bytes takes several chunks
WRITE_CHUNK_SIZE == 2

Platforms == {"linux", "darwin"}
isDarwin(p) == p = "darwin"
isLinux(p) == p = "linux"

\* "no value" markers
NULL == 0 - 1
NoErrno == 0 - 1
NoSize == 0 - 1
NoAttr == "null"

Min(a, b) == IF a < b THEN a ELSE b

\* the decimal numeral of n starts with the decimal numeral of k
RECURSIVE DecStartsWith(_, _)
DecStartsWith(n, k) ==
  IF n = k THEN TRUE
  ELSE IF n < 10 THEN FALSE
  ELSE DecStartsWith(n \div 10, k)

(* ------------------------------ errors --------------------------------- *)
\* what a caller can observe of a thrown value: its class, the
\* SerialPortErrorCode (for a SerialPortError), and the syscall and errno
\* quoted at the end of the message of a bridge Error ("<sys> failed: errno N")
NoError == [kind |-> "ok", code |-> "", sys |-> "", errno |-> NoErrno]
BridgeError(sys, e) == [kind |-> "Error", code |-> "", sys |-> sys, errno |-> e]
SerialPortError(code) ==
  [kind |-> "SerialPortError", code |-> code, sys |-> "", errno |-> NoErrno]
\* Deno's FFI refuses a non-integer (null) argument for an i32 parameter
FfiTypeError(sys) == [kind |-> "TypeError", code |-> "", sys |-> sys, errno |-> NoErrno]

\* error.message.includes('errno K'): the message of a bridge Error ends in
\* "errno N", so the substring test is a prefix test on the numeral of N
MessageIncludesErrno(err, k) ==
  /\ err.kind = "Error"
  /\ err.errno # NoErrno
  /\ DecStartsWith(err.errno, k)

(* --------------------------- syscall records --------------------------- *)
\* one call through the bridge: the wrapper, its descriptor argument (for
\* open, the descriptor returned), its selector and data arguments, and the
\* errno the kernel reported (0 for success; an asynchronous call is logged
\* when issued, with 0)
Sys(c, f, a, d, e) == [call |-> c, fd |-> f, arg |-> a, data |-> d, err |-> e]

VARIABLES
  platform,         \* the platform profile, fixed at process start
  options,          \* this.options
  constructed,      \* the constructor returned normally
  fd,               \* this.fd (NULL when none)
  isOpen,           \* this.isOpen
  originalTermios,  \* this.originalTermios (abstract attribute value, NoAttr when null)
  readableStream,   \* this._readableStream (stream id, 0 when null)
  streamCount,      \* streams created so far
  streams,          \* the streams the getter created, by id: descriptor captured, state, reader lock
  wpc, wData, wOff, wTotal, wFd, wChunk, wAcc, wRetries,  \* write() task
  rpc, rFd, rLen, rSize, rCalls,                                \* read() task
  kfds,             \* kernel: descriptor numbers in use
  devAttr,          \* kernel: terminal attributes of the device
  modem,            \* kernel: modem-control word of the device
  rxq,              \* kernel: bytes received and not yet read
  rxCount,          \* bytes the device delivered so far
  excl,             \* kernel: the device is in exclusive mode (TIOCEXCL)
  peer,             \* another session with lock on the same path (NoPeer when closed)
  termios,          \* configurePort: the decoded Termios object (NoTermios when none)
  termiosBuffer,    \* configurePort: the bytes of termiosBuffer (empty when none)
  kTermios,         \* kernel: the bytes of the device's struct termios
  tpc,              \* configurePort: the statement that ran last
  parser,           \* a stream parser: its kind and options
  pBuffer,          \* parser: this.buffer
  pPending,         \* Readline parser: bytes the TextDecoder holds back
  pFrames,          \* parser: the frames enqueued so far, with the callback that enqueued each
  pStream,          \* parser: state of its transform stream
  pWritten,         \* parser: the bytes written to the stream so far
  bridge,           \* the bridge read/write that returned in the last step, if any
  res,              \* the public operation that returned or raised in the last step, if any
  calls             \* the bridge calls the last step issued, in order

sessVars == <<fd, isOpen, originalTermios, readableStream, streamCount>>
writeVars == <<wpc, wData, wOff, wTotal, wFd, wChunk, wAcc, wRetries>>
readVars == <<rpc, rFd, rLen, rSize, rCalls>>
lockVars == <<excl, peer>>
kernVars == <<kfds, devAttr, modem, rxq, rxCount, lockVars>>
confVars == <<platform, options, constructed>>
codecVars == <<termios, termiosBuffer, kTermios, tpc>>
parserVars == <<parser, pBuffer, pPending, pFrames, pStream, pWritten>>
vars == <<confVars, sessVars, streams, writeVars, readVars, kernVars, codecVars, parserVars, bridge, res, calls>>


(* ------------------------- kernel (environment) ------------------------ *)
\* errno values each kernel call may fail with
OpenErrnos == {EPERM, ENOENT, EACCES, EBUSY}
LockErrnos == {EBUSY, ENOTTY}
AttrErrnos == {EINVAL, ENOTTY}
FlushErrnos == {EIO}
CloseErrnos == {EIO}
RestoreErrnos == {EIO}
UnlockErrnos == {ENOTTY}
ModemErrnos == {EIO, ENODEV, ENOTTY}
IoErrnos == {EIO, EAGAIN, EAGAIN_MACOS}

\* open(2) returns the lowest descriptor number not in use; 0, 1 and 2 are
\* the standard streams of the process
LowestFree(used) ==
  LET range == 3 .. (3 + Cardinality(used))
  IN  CHOOSE n \in range \ used : \A m \in range \ used : n <= m

\* abstract terminal-attribute values: the one the device carries before the
\* session touches it, the value written by configurePort, and the zeroed
\* buffer of createTermiosBuffer()
PriorAttrs == {"A0"}
ConfiguredAttr == "RAW"
ZeroAttr == "ZERO"

\* states of the input lines (and of bits the session never names) the
\* hardware may present
LineStates == {0, TIOCM_DSR + TIOCM_CD + TIOCM_CTS, TIOCM_RI + TIOCM_LE}

(* ------------------------------ options -------------------------------- *)
BaudRates ==
  {0, 50, 75, 110, 134, 150, 200, 300, 600, 1200, 1800, 2400, 4800, 9600,
   19200, 38400, 57600, 115200, 230400}

\* getBaudRateValue returns normally
BaudRateSupported(p, b) == b \in BaudRates \/ isDarwin(p)

\* a validation that stops after the baud rate
validateOptionsBaudOnly(p, o) ==
  IF ~BaudRateSupported(p, o.baudRate) THEN SerialPortError("INVALID_BAUD_RATE")
  ELSE NoError
\* validateOptions: the error it throws, NoError when it returns
validateOptions(p, o) ==
  IF ~BaudRateSupported(p, o.baudRate) THEN SerialPortError("INVALID_BAUD_RATE")
  ELSE IF o.dataBits \notin {5, 6, 7, 8} THEN SerialPortError("INVALID_CONFIGURATION")
  ELSE IF o.stopBits \notin {1, 2} THEN SerialPortError("INVALID_CONFIGURATION")
  ELSE IF o.parity \notin {"none", "even", "odd", "mark", "space"}
       THEN SerialPortError("INVALID_CONFIGURATION")
  ELSE NoError

BaseOptions ==
  [path |-> "/dev/ttyS0", baudRate |-> 9600, dataBits |-> 8, stopBits |-> 1,
   parity |-> "none", lock |-> TRUE, autoOpen |-> FALSE, highWaterMark |-> 1]

\* the option records a caller passes to the constructor: lock and autoOpen
\* with each parity, every highWaterMark, and one record per validation
\* failure, with and without autoOpen
InitOptions ==
  {[BaseOptions EXCEPT !.lock = l, !.parity = p] : l \in BOOLEAN, p \in {"none", "mark"}}
  \cup {[BaseOptions EXCEPT !.autoOpen = TRUE, !.parity = p] : p \in {"none", "mark"}}
  \cup {[BaseOptions EXCEPT !.highWaterMark = h] : h \in 1..MaxHwm}
  \cup {[o EXCEPT !.autoOpen = a] :
          o \in {[BaseOptions EXCEPT !.baudRate = 12345], [BaseOptions EXCEPT !.dataBits = 9],
                 [BaseOptions EXCEPT !.stopBits = 3], [BaseOptions EXCEPT !.parity = "bogus"]},
          a \in BOOLEAN}

(* ------------------------------ results -------------------------------- *)
Result(op, err) ==
  [op |-> op, err |-> err, ret |-> NULL, size |-> NoSize, inp |-> <<>>,
   out |-> <<>>, ncalls |-> 0, retries |-> 0, sig |-> <<>>]

NoResult == Result("none", NoError)
NoBridge == [fn |-> "none", errno |-> NoErrno, threw |-> FALSE, ret |-> NULL]
NoPeer == [fd |-> NULL, originalTermios |-> NoAttr]
NoTermios == [c_cc |-> <<>>]
NoParser == [kind |-> "none"]
\* no parser constructed
ParserIdle ==
  /\ parser = NoParser
  /\ pBuffer = <<>>
  /\ pPending = <<>>
  /\ pFrames = <<>>
  /\ pStream = "none"
  /\ pWritten = <<>>

Init ==
  /\ platform \in Platforms
  /\ options \in InitOptions
  /\ constructed = FALSE
  /\ fd = NULL
  /\ isOpen = FALSE
  /\ originalTermios = NoAttr
  /\ readableStream = 0
  /\ streamCount = 0
  /\ streams = <<>>
  /\ wpc = "idle" /\ wData = <<>> /\ wOff = 0 /\ wTotal = 0 /\ wFd = NULL
  /\ wChunk = <<>> /\ wAcc = <<>> /\ wRetries = 0
  /\ rpc = "idle" /\ rFd = NULL /\ rLen = 0 /\ rSize = NoSize /\ rCalls = 0
  /\ kfds = {}
  /\ devAttr \in PriorAttrs
  /\ modem = 0
  /\ rxq = <<>>
  /\ rxCount = 0
  /\ excl = FALSE
  /\ peer = NoPeer
  /\ termios = NoTermios /\ termiosBuffer = <<>> /\ kTermios = <<>> /\ tpc = "idle"
  /\ ParserIdle
  /\ bridge = NoBridge
  /\ res = NoResult
  /\ calls = <<>>

(* ------------------------------- open() -------------------------------- *)
\* the steps of open() at which a failure can arise, in program order
OpenFailPoints == {"open", "lock", "snap", "cfgget", "parity", "set", "flush", "none"}
\* an order of steps in which open() returns before it flushes
OrdFlushless(fp) ==
  CASE fp = "open" -> 1 [] fp = "lock" -> 2 [] fp = "snap" -> 3 [] fp = "cfgget" -> 4
    [] fp = "parity" -> 5 [] fp = "set" -> 6 [] fp = "flush" -> 7 [] fp = "none" -> 6
\* the steps of open() in the order they run
Ord(fp) ==
  CASE fp = "open" -> 1 [] fp = "lock" -> 2 [] fp = "snap" -> 3 [] fp = "cfgget" -> 4
    [] fp = "parity" -> 5 [] fp = "set" -> 6 [] fp = "flush" -> 7 [] fp = "none" -> 8

\* configurePort rejects mark/space parity where isLinux() is false
ParityRejected(p, o) == o.parity \in {"mark", "space"} /\ ~isLinux(p)

\* errno values the failing step can report (parity rejection carries none)
FailErrnos(fp) ==
  CASE fp = "open" -> OpenErrnos
    [] fp = "lock" -> LockErrnos
    [] fp \in {"snap", "cfgget", "set"} -> AttrErrnos
    [] fp = "flush" -> FlushErrnos
    [] OTHER -> {0}

\* which failure points the configuration and platform allow
Feasible(p, o, fp) ==
  /\ (fp = "lock") => o.lock
  /\ (fp = "parity") <=> (ParityRejected(p, o) /\ Ord(fp) = 5)
  /\ ParityRejected(p, o) => Ord(fp) <= 5

\* the error thrown inside the try block of open()
OpenThrown(fp, e) ==
  CASE fp = "none" -> NoError
    [] fp = "open" -> BridgeError("open", e)
    [] fp = "lock" -> SerialPortError("ACCESS_DENIED")
    [] fp = "snap" -> BridgeError("tcgetattr", e)
    [] fp = "cfgget" -> BridgeError("tcgetattr", e)
    [] fp = "parity" -> SerialPortError("INVALID_CONFIGURATION")
    [] fp = "set" -> BridgeError("tcsetattr", e)
    [] fp = "flush" -> BridgeError("tcflush", e)

\* the error mapping of open()'s catch block
OpenCatchMap(thrown) ==
  IF MessageIncludesErrno(thrown, ENOENT) THEN SerialPortError("PORT_NOT_FOUND")
  ELSE IF MessageIncludesErrno(thrown, EACCES) THEN SerialPortError("ACCESS_DENIED")
  ELSE thrown

\* an inner catch that closes the descriptor and keeps the field
FdAfterLockFailureKept(f) == f
\* this.fd after the inner catch of the lock step
FdAfterLockFailure(f) == NULL

\* a catch block that maps the error and forgets the descriptor
OpenCleanupCallsNone(f, ce) == <<>>
\* close calls of open()'s outer catch, given this.fd at that point
OpenCleanupCalls(f, ce) == IF f # NULL THEN <<Sys("close", f, "", "", ce)>> ELSE <<>>

\* a catch block that closes the descriptor and keeps the field
FdAfterCatchKept(f) == f
\* this.fd after the outer catch of open()
FdAfterCatch(f) == NULL

\* one run of open() on a closed session: fp is the step that fails with
\* errno e, ce the result of the cleanup close (the kernel releases the
\* descriptor number whatever close reports)
OpenRun(fp, e, ce) ==
  LET k == Ord(fp)
      newfd == LowestFree(kfds)
      fd1 == IF k > 1 THEN newfd ELSE fd
      err(i) == IF k = i THEN e ELSE 0
      cOpen == <<Sys("open", fd1, "O_RDWR|O_NOCTTY|O_NONBLOCK", options.path, err(1))>>
      cLock == IF options.lock /\ k >= 2 THEN <<Sys("ioctl", fd1, "TIOCEXCL", "", err(2))>> ELSE <<>>
      cInner == IF fp = "lock" /\ fd1 # NULL THEN <<Sys("close", fd1, "", "", ce)>> ELSE <<>>
      fd2 == IF fp = "lock" THEN FdAfterLockFailure(fd1) ELSE fd1
      cSnap == IF k >= 3 THEN <<Sys("tcgetattr", fd2, "", devAttr, err(3))>> ELSE <<>>
      cGet == IF k >= 4 THEN <<Sys("tcgetattr", fd2, "", devAttr, err(4))>> ELSE <<>>
      cSet == IF k >= 6 THEN <<Sys("tcsetattr", fd2, "TCSANOW", ConfiguredAttr, err(6))>> ELSE <<>>
      cFlush == IF k >= 7 THEN <<Sys("tcflush", fd2, "TCIOFLUSH", "", err(7))>> ELSE <<>>
      thrown == OpenThrown(fp, e)
      cOuter == IF thrown.kind # "ok" THEN OpenCleanupCalls(fd2, ce) ELSE <<>>
      closes == Len(cInner) + Len(cOuter)
  IN  [fd |-> IF thrown.kind = "ok" THEN fd2 ELSE FdAfterCatch(fd2),
       isOpen |-> IF thrown.kind = "ok" THEN TRUE ELSE isOpen,
       originalTermios |->
         IF k > 3 THEN devAttr ELSE IF k = 3 THEN ZeroAttr ELSE originalTermios,
       kfds |-> IF k = 1 \/ closes > 0 THEN kfds ELSE kfds \cup {newfd},
       devAttr |-> IF k >= 7 THEN ConfiguredAttr ELSE devAttr,
       rxq |-> IF k >= 8 THEN <<>> ELSE rxq,
       err |-> OpenCatchMap(thrown),
       calls |-> cOpen \o cLock \o cInner \o cSnap \o cGet \o cSet \o cFlush \o cOuter]

\* the kernel refuses open(2) on a terminal in exclusive mode with EBUSY
\* (the caller is not privileged)
ExclusiveOpenRefused == excl

\* a strict open() that reports a second open
OpenOnOpenStrict == SerialPortError("UNKNOWN")
\* what open() raises when the session is already open: nothing, it returns
OpenOnOpen == NoError

\* an open() of an open session that reads the device's attributes again and
\* keeps them as its snapshot
OpenAgainResnapshot(op) ==
  /\ res' = Result(op, OpenOnOpen)
  /\ calls' = <<Sys("tcgetattr", fd, "", devAttr, 0)>>
  /\ originalTermios' = devAttr
  /\ UNCHANGED <<fd, isOpen, readableStream, streamCount, kernVars>>
\* open() of a session that is already open: the early return
OpenAgain(op) ==
  /\ res' = Result(op, OpenOnOpen)
  /\ calls' = <<>>
  /\ UNCHANGED <<sessVars, kernVars>>

\* open(), also run by the constructor when autoOpen is set
OpenBody(op) ==
  IF isOpen
  THEN OpenAgain(op)
  ELSE \E fp \in OpenFailPoints :
         /\ Feasible(platform, options, fp)
         /\ \E e \in FailErrnos(fp), ce \in {0} \cup CloseErrnos :
              LET r == OpenRun(fp, e, ce) IN
                   /\ (fp \in {"open", "none"} => ce = 0)
                   /\ ExclusiveOpenRefused => (fp = "open" /\ e = EBUSY)
                   /\ excl' = IF r.isOpen /\ options.lock THEN TRUE ELSE excl
                   /\ fd' = r.fd
                   /\ isOpen' = r.isOpen
                   /\ originalTermios' = r.originalTermios
                   /\ kfds' = r.kfds
                   /\ devAttr' = r.devAttr
                   /\ rxq' = r.rxq
                   /\ res' = Result(op, r.err)
                   /\ calls' = r.calls
                   /\ UNCHANGED <<readableStream, streamCount, modem, rxCount, peer>>

Open ==
  /\ constructed
  /\ OpenBody("open")
  /\ bridge' = NoBridge
  /\ UNCHANGED <<parserVars, streams, codecVars, confVars, writeVars, readVars>>

\* new SerialPort(options)
Construct ==
  /\ ~constructed
  /\ fd = NULL /\ originalTermios = NoAttr
  /\ LET verr == validateOptions(platform, options) IN
       IF verr.kind # "ok"
       THEN /\ res' = Result("constructor", verr)
            /\ calls' = <<>>
            /\ UNCHANGED <<constructed, sessVars, kernVars>>
       ELSE IF options.autoOpen
       THEN /\ OpenBody("constructor")
            /\ constructed' = (res'.err.kind = "ok")
       ELSE /\ res' = Result("constructor", NoError)
            /\ calls' = <<>>
            /\ constructed' = TRUE
            /\ UNCHANGED <<sessVars, kernVars>>
  /\ bridge' = NoBridge
  /\ UNCHANGED <<parserVars, streams, codecVars, platform, options, writeVars, readVars>>

(* ------------------------------- close() ------------------------------- *)
\* a method that goes straight to the bridge
PortNotOpenUnguarded == FALSE
\* the guard every runtime method starts with
PortNotOpen == ~isOpen \/ fd = NULL

\* what close() raises, given the results of the restore, the unlock and
\* the descriptor close (0 for success): the first two are swallowed
CloseThrown(re, ue, ce) == IF ce # 0 THEN BridgeError("close", ce) ELSE NoError

\* a close() whose restore or unlock failure skips the rest of the body
CloseReachesCloseOnSuccess(re, ue) == re = 0 /\ ue = 0
\* whether close() goes on to close the descriptor after the first two steps
CloseReachesClose(re, ue) == TRUE

\* a close() that resets the session after the body instead of in a finally
CloseResetsOnSuccess(thrown) == thrown.kind = "ok"
\* whether the finally block of close() resets the session, given what the
\* body raised
CloseResets(thrown) == TRUE

\* a ReadableStream the getter creates: the descriptor its pull callback
\* captured, its state, whether a reader holds its lock, and whether the
\* session that created it has stayed open since
NewStream(f) == [fd |-> f, state |-> "readable", locked |-> FALSE, session |-> TRUE]

\* close() drops the session's stream: no stream belongs to the session any more
Detached(ss) == [i \in DOMAIN ss |-> [ss[i] EXCEPT !.session = FALSE]]

\* what getReader() raises on a locked stream
StreamLocked == [kind |-> "TypeError", code |-> "", sys |-> "getReader", errno |-> NoErrno]

\* a restore that hands tcsetattr the attributes as configurePort left them
RestoreCallsConfigured(f, attr, re) ==
  IF attr # NoAttr THEN <<Sys("tcsetattr", f, "TCSANOW", ConfiguredAttr, re)>> ELSE <<>>
\* the attribute restore of close(): tcsetattr with this.originalTermios when
\* there is one
RestoreCalls(f, attr, re) ==
  IF attr # NoAttr THEN <<Sys("tcsetattr", f, "TCSANOW", attr, re)>> ELSE <<>>

CloseBody(op) ==
  IF PortNotOpen
  THEN /\ res' = Result(op, NoError)
       /\ calls' = <<>>
       /\ UNCHANGED <<sessVars, streams, kernVars>>
  ELSE \E re \in {0} \cup RestoreErrnos, ue \in {0} \cup UnlockErrnos,
          ce \in {0} \cup CloseErrnos :
         LET restores == originalTermios # NoAttr
             cRestore == RestoreCalls(fd, originalTermios, re)
             cUnlock == IF options.lock THEN <<Sys("ioctl", fd, "TIOCNXCL", "", ue)>> ELSE <<>>
             reaches == CloseReachesClose(re, ue)
             cClose == IF reaches THEN <<Sys("close", fd, "", "", ce)>> ELSE <<>>
             thrown == CloseThrown(re, ue, ce)
             resets == CloseResets(thrown)
         IN  /\ (~options.lock => ue = 0)
             /\ (~restores => re = 0)
             /\ (~reaches => ce = 0)
             /\ calls' = cRestore \o cUnlock \o cClose
             /\ res' = Result(op, thrown)
             /\ devAttr' = IF restores /\ re = 0 THEN originalTermios ELSE devAttr
             /\ kfds' = IF reaches THEN kfds \ {fd} ELSE kfds
             /\ fd' = IF resets THEN NULL ELSE fd
             /\ isOpen' = IF resets THEN FALSE ELSE isOpen
             /\ originalTermios' = IF resets THEN NoAttr ELSE originalTermios
             /\ readableStream' = IF resets THEN 0 ELSE readableStream
             /\ streams' = IF resets THEN Detached(streams) ELSE streams
             /\ excl' = IF peer = NoPeer \/ (options.lock /\ ue = 0) THEN FALSE ELSE excl
             /\ UNCHANGED <<streamCount, modem, rxq, rxCount, peer>>

Close ==
  /\ constructed
  /\ CloseBody("close")
  /\ bridge' = NoBridge
  /\ UNCHANGED <<parserVars, codecVars, confVars, writeVars, readVars>>

\* [Symbol.dispose]()
Dispose ==
  /\ constructed
  /\ CloseBody("dispose")
  /\ bridge' = NoBridge
  /\ UNCHANGED <<parserVars, codecVars, confVars, writeVars, readVars>>


(* --------------------------- syscall bridge ---------------------------- *)
\* the read/write wrappers of the bridge: kret is the kernel's return value
\* (-1 on failure), kerrno the errno it left
BridgeIo(fn, kret, kerrno) ==
  IF kret = 0 - 1
  THEN IF kerrno = EAGAIN
       THEN [fn |-> fn, errno |-> kerrno, threw |-> FALSE, ret |-> 0]
       ELSE [fn |-> fn, errno |-> kerrno, threw |-> TRUE, ret |-> NULL]
  ELSE [fn |-> fn, errno |-> NoErrno, threw |-> FALSE, ret |-> kret]

\* a synchronous wrapper called with descriptor f, the kernel answering e
\* (0 for success)
BridgeCall(f, sys, e) ==
  IF f = NULL THEN FfiTypeError(sys)
  ELSE IF e = 0 THEN NoError
  ELSE BridgeError(sys, e)

PortClosed == SerialPortError("PORT_CLOSED")

(* ------------------------------- write() ------------------------------- *)
\* payloads: prefixes of 1, 2, 3, ... so that every byte is distinct
Payloads == {[i \in 1..n |-> i] : n \in 0..MaxData}

\* buffer.slice(offset, offset + WRITE_CHUNK_SIZE)
WriteChunk(data, off) == SubSeq(data, off + 1, Min(Len(data), off + WRITE_CHUNK_SIZE))

\* a loop that steps by the chunk it offered
WriteAdvanceByChunk(off, written) == off + WRITE_CHUNK_SIZE
\* offset after the bridge accepted `written` bytes
WriteAdvance(off, written) == off + written

\* a write() that gives up on a zero result and returns what it has written
WriteOnZeroReturn == "return"
\* what write() does with a zero result of the bridge
WriteOnZero == "sleep"

WriteIdle ==
  /\ wpc' = "idle" /\ wData' = <<>> /\ wOff' = 0 /\ wTotal' = 0 /\ wFd' = NULL
  /\ wChunk' = <<>> /\ wAcc' = <<>> /\ wRetries' = 0

\* the head of the while loop of write(), with the loop state given: the
\* task returns, or issues the next bridge write on the current this.fd
WriteLoop(data, off, total, acc, retries) ==
  IF off >= Len(data)
  THEN /\ res' = [Result("write", NoError) EXCEPT
                    !.ret = total, !.inp = data, !.out = acc, !.retries = retries]
       /\ calls' = <<>>
       /\ WriteIdle
  ELSE IF fd = NULL
  THEN /\ res' = [Result("write", FfiTypeError("write")) EXCEPT !.inp = data, !.out = acc]
       /\ calls' = <<Sys("write", fd, "", WriteChunk(data, off), 1)>>
       /\ WriteIdle
  ELSE /\ wpc' = "inflight"
       /\ wData' = data
       /\ wOff' = off
       /\ wTotal' = total
       /\ wFd' = fd
       /\ wChunk' = WriteChunk(data, off)
       /\ wAcc' = acc
       /\ wRetries' = retries
       /\ res' = NoResult
       /\ calls' = <<Sys("write", fd, "", WriteChunk(data, off), 0)>>

WriteStart(data) ==
  /\ constructed
  /\ wpc = "idle"
  /\ IF PortNotOpen
     THEN /\ res' = [Result("write", PortClosed) EXCEPT !.inp = data]
          /\ calls' = <<>>
          /\ UNCHANGED writeVars
     ELSE WriteLoop(data, 0, 0, <<>>, 0)
  /\ bridge' = NoBridge
  /\ UNCHANGED <<parserVars, streams, codecVars, confVars, sessVars, readVars, kernVars>>

\* the kernel's answers to a write of n bytes on descriptor f: a count
\* accepted, or -1 and an errno
WriteOutcomes(n, f) ==
  {[ret |-> k, errno |-> NoErrno] : k \in 0..n}
  \cup {[ret |-> 0 - 1, errno |-> e] : e \in IoErrnos \cup (IF f \in kfds THEN {} ELSE {EBADF})}

\* the bridge write in flight returns
WriteComplete ==
  /\ wpc = "inflight"
  /\ \E k \in WriteOutcomes(Len(wChunk), wFd) :
       LET b == BridgeIo("write", k.ret, k.errno) IN
         /\ bridge' = b
         /\ IF b.threw
            THEN /\ res' = [Result("write", BridgeError("write", b.errno)) EXCEPT
                              !.inp = wData, !.out = wAcc]
                 /\ calls' = <<>>
                 /\ WriteIdle
            ELSE IF b.ret = 0
            THEN IF WriteOnZero = "sleep"
                 THEN /\ wRetries < MaxRetry
                      /\ wpc' = "sleep"
                      /\ wRetries' = wRetries + 1
                      /\ res' = NoResult
                      /\ calls' = <<>>
                      /\ UNCHANGED <<wData, wOff, wTotal, wFd, wChunk, wAcc>>
                 ELSE WriteLoop(wData, Len(wData), wTotal, wAcc, wRetries)
            ELSE WriteLoop(wData, WriteAdvance(wOff, b.ret), wTotal + b.ret,
                           wAcc \o SubSeq(wChunk, 1, b.ret), wRetries)
  /\ UNCHANGED <<parserVars, streams, codecVars, confVars, sessVars, readVars, kernVars>>

\* the POLL_INTERVAL_MS timer of a would-block retry fires
WriteSleepDone ==
  /\ wpc = "sleep"
  /\ WriteLoop(wData, wOff, wTotal, wAcc, wRetries)
  /\ bridge' = NoBridge
  /\ UNCHANGED <<parserVars, streams, codecVars, confVars, sessVars, readVars, kernVars>>

(* -------------------------------- read() ------------------------------- *)
\* read sizes tried: none, and 0 .. MaxHwm + 1
ReadSizes == {NoSize} \cup (0 .. MaxHwm + 1)

\* length of the buffer handed to the bridge read
ReadBufferLength(size, hwm) ==
  IF size # NoSize /\ size # 0 THEN Min(size, hwm) ELSE hwm

\* a read() that polls like write() does
ReadOnZeroRetry == "retry"
\* what read() does with a zero result of the bridge
ReadOnZero == "return"

ReadIdle == rpc' = "idle" /\ rFd' = NULL /\ rLen' = 0 /\ rSize' = NoSize /\ rCalls' = 0

ReadStart(size) ==
  /\ constructed
  /\ rpc = "idle"
  /\ IF PortNotOpen
     THEN /\ res' = [Result("read", PortClosed) EXCEPT !.size = size]
          /\ calls' = <<>>
          /\ UNCHANGED readVars
     ELSE /\ rpc' = "inflight"
          /\ rFd' = fd
          /\ rLen' = ReadBufferLength(size, options.highWaterMark)
          /\ rSize' = size
          /\ rCalls' = 1
          /\ res' = NoResult
          /\ calls' = <<Sys("read", fd, "", ToString(rLen'), 0)>>
  /\ bridge' = NoBridge
  /\ UNCHANGED <<parserVars, streams, codecVars, confVars, sessVars, writeVars, kernVars>>

\* the kernel's answers to a read into n bytes on descriptor f with q
\* pending: a count delivered, or -1 and an errno
ReadOutcomes(n, q, f) ==
  {[ret |-> k, errno |-> NoErrno] : k \in 0..Min(n, Len(q))}
  \cup {[ret |-> 0 - 1, errno |-> e] : e \in IoErrnos \cup (IF f \in kfds THEN {} ELSE {EBADF})}

\* the bridge read in flight returns
ReadComplete ==
  /\ rpc = "inflight"
  /\ \E k \in ReadOutcomes(rLen, rxq, rFd) :
       LET b == BridgeIo("read", k.ret, k.errno) IN
         /\ bridge' = b
         /\ IF b.threw
            THEN /\ res' = [Result("read", BridgeError("read", b.errno)) EXCEPT
                              !.size = rSize, !.ncalls = rCalls]
                 /\ calls' = <<>>
                 /\ ReadIdle
                 /\ rxq' = rxq
            ELSE IF b.ret = 0 /\ ReadOnZero # "return"
            THEN /\ rCalls <= MaxRetry
                 /\ rCalls' = rCalls + 1
                 /\ res' = NoResult
                 /\ calls' = <<Sys("read", rFd, "", ToString(rLen), 0)>>
                 /\ UNCHANGED <<rpc, rFd, rLen, rSize, rxq>>
            ELSE /\ res' = [Result("read", NoError) EXCEPT
                              !.size = rSize, !.ncalls = rCalls,
                              !.out = SubSeq(rxq, 1, b.ret), !.ret = b.ret]
                 /\ calls' = <<>>
                 /\ rxq' = SubSeq(rxq, b.ret + 1, Len(rxq))
                 /\ ReadIdle
  /\ UNCHANGED <<parserVars, streams, codecVars, confVars, sessVars, writeVars, kfds, devAttr, modem, rxCount, lockVars>>

\* a step of the environment returns nothing to a caller and issues no call
NoObservation == res' = NoResult /\ calls' = <<>> /\ bridge' = NoBridge

\* the device delivers one more byte to the receive queue
DeviceReceive ==
  /\ kfds # {}
  /\ rxCount < MaxRx
  /\ rxCount' = rxCount + 1
  /\ rxq' = Append(rxq, rxCount + 1)
  /\ NoObservation
  /\ UNCHANGED <<parserVars, streams, codecVars, confVars, sessVars, writeVars, readVars, kfds, devAttr, modem, lockVars>>

(* -------------------- flush(), drain(), sendBreak() -------------------- *)
\* FLUSH selector of a direction
FlushQueue(direction) ==
  CASE direction = "input" -> "TCIFLUSH"
    [] direction = "output" -> "TCOFLUSH"
    [] direction = "both" -> "TCIOFLUSH"

\* a guarded pass-through to one bridge call; discard tells whether success
\* empties the receive queue
PassThrough(op, sys, arg, errnos, discard) ==
  /\ constructed
  /\ IF PortNotOpen
     THEN /\ res' = Result(op, PortClosed)
          /\ calls' = <<>>
          /\ rxq' = rxq
     ELSE \E e \in {0} \cup errnos :
            /\ calls' = <<Sys(sys, fd, arg, "", e)>>
            /\ res' = Result(op, BridgeCall(fd, sys, e))
            /\ rxq' = IF discard /\ fd # NULL /\ e = 0 THEN <<>> ELSE rxq
  /\ bridge' = NoBridge
  /\ UNCHANGED <<parserVars, streams, codecVars, confVars, sessVars, writeVars, readVars, kfds, devAttr, modem, rxCount,
                 lockVars>>

Flush(direction) ==
  PassThrough("flush", "tcflush", FlushQueue(direction), FlushErrnos,
              direction \in {"input", "both"})

Drain == PassThrough("drain", "tcdrain", "", FlushErrnos, FALSE)

SendBreak == PassThrough("sendBreak", "tcsendbreak", "0", FlushErrnos, FALSE)

(* --------------------- getSignals(), setSignals() ---------------------- *)
\* (word & bit) !== 0, for bit a power of two
BitSet(word, bit) == (word \div bit) % 2 = 1
\* word | bit and word & ~bit
WithBit(word, bit) == IF BitSet(word, bit) THEN word ELSE word + bit
WithoutBit(word, bit) == IF BitSet(word, bit) THEN word - bit ELSE word

\* the snapshot getSignals() returns where the ioctl is not attempted
DefaultSignals == [cts |-> FALSE, dsr |-> FALSE, dcd |-> FALSE, ring |-> FALSE]

\* decoding of the modem-control word
DecodeSignals(status) ==
  [cts |-> BitSet(status, TIOCM_CTS), dsr |-> BitSet(status, TIOCM_DSR),
   dcd |-> BitSet(status, TIOCM_CD), ring |-> BitSet(status, TIOCM_RI)]

\* a catch block that knows ENOTTY only
SignalsCatchMapNotty(err) ==
  IF MessageIncludesErrno(err, ENOTTY) THEN SerialPortError("OPERATION_NOT_SUPPORTED")
  ELSE err
\* the catch block shared by getSignals() and setSignals()
SignalsCatchMap(err) ==
  IF MessageIncludesErrno(err, ENOTTY) THEN SerialPortError("OPERATION_NOT_SUPPORTED")
  ELSE IF MessageIncludesErrno(err, ENODEV) THEN SerialPortError("OPERATION_NOT_SUPPORTED")
  ELSE err

\* signal methods without the platform test
SignalsGatedNowhere(p) == FALSE
\* whether the signal methods skip the ioctl on this platform
SignalsGated(p) == isDarwin(p)

GetSignals ==
  /\ constructed
  /\ IF PortNotOpen
     THEN /\ res' = Result("getSignals", PortClosed)
          /\ calls' = <<>>
     ELSE IF SignalsGated(platform)
     THEN /\ res' = [Result("getSignals", NoError) EXCEPT !.sig = DefaultSignals]
          /\ calls' = <<>>
     ELSE \E e \in {0} \cup ModemErrnos :
            /\ calls' = <<Sys("ioctl", fd, "TIOCMGET", "", e)>>
            /\ res' = IF fd # NULL /\ e = 0
                      THEN [Result("getSignals", NoError) EXCEPT !.sig = DecodeSignals(modem)]
                      ELSE Result("getSignals", SignalsCatchMap(BridgeCall(fd, "ioctl", e)))
  /\ bridge' = NoBridge
  /\ UNCHANGED <<parserVars, streams, codecVars, confVars, sessVars, writeVars, readVars, kernVars>>

\* a field of a SetSignals request: absent, true or false
SignalRequests == [dtr : {"undefined", "true", "false"}, rts : {"undefined", "true", "false"}]

\* a merge that clears the bit of a field that is absent
MergeBitClearing(word, bit, req) ==
  IF req = "true" THEN WithBit(word, bit) ELSE WithoutBit(word, bit)
\* the read-modify-write merge of setSignals()
MergeBit(word, bit, req) ==
  IF req = "undefined" THEN word
  ELSE IF req = "true" THEN WithBit(word, bit)
  ELSE WithoutBit(word, bit)
MergeSignals(word, signals) ==
  MergeBit(MergeBit(word, TIOCM_DTR, signals.dtr), TIOCM_RTS, signals.rts)

SetSignals(signals) ==
  /\ constructed
  /\ IF PortNotOpen
     THEN /\ res' = Result("setSignals", PortClosed)
          /\ calls' = <<>>
          /\ modem' = modem
     ELSE IF SignalsGated(platform)
     THEN /\ res' = Result("setSignals", NoError)
          /\ calls' = <<>>
          /\ modem' = modem
     ELSE \E e1 \in {0} \cup ModemErrnos, e2 \in {0} \cup ModemErrnos :
            LET got == fd # NULL /\ e1 = 0
                value == MergeSignals(modem, signals)
                cGet == <<Sys("ioctl", fd, "TIOCMGET", "", e1)>>
                cSet == IF got THEN <<Sys("ioctl", fd, "TIOCMSET", ToString(value), e2)>> ELSE <<>>
            IN  /\ calls' = cGet \o cSet
                /\ res' = Result("setSignals",
                                 SignalsCatchMap(IF got THEN BridgeCall(fd, "ioctl", e2)
                                                 ELSE BridgeCall(fd, "ioctl", e1)))
                /\ modem' = IF got /\ e2 = 0 THEN value ELSE modem
  /\ bridge' = NoBridge
  /\ UNCHANGED <<parserVars, streams, codecVars, confVars, sessVars, writeVars, readVars, kfds, devAttr, rxq, rxCount,
                 lockVars>>

(* ------------------------------ readable ------------------------------- *)
\* the `readable` getter
GetReadable ==
  /\ constructed
  /\ IF PortNotOpen
     THEN /\ res' = Result("readable", PortClosed)
          /\ UNCHANGED <<readableStream, streamCount, streams>>
     ELSE IF readableStream # 0
     THEN /\ res' = [Result("readable", NoError) EXCEPT !.ret = readableStream]
          /\ UNCHANGED <<readableStream, streamCount, streams>>
     ELSE /\ streamCount < MaxStreams
          /\ streamCount' = streamCount + 1
          /\ readableStream' = streamCount + 1
          /\ streams' = Append(streams, NewStream(fd))
          /\ res' = [Result("readable", NoError) EXCEPT !.ret = streamCount + 1]
  /\ calls' = <<>>
  /\ bridge' = NoBridge
  /\ UNCHANGED <<parserVars, codecVars, confVars, fd, isOpen, originalTermios, writeVars, readVars, kernVars>>

\* stream.getReader() on a stream the getter returned: a TypeError while a
\* reader holds the lock
GetReader(id) ==
  /\ id \in 1..streamCount
  /\ IF streams[id].locked
     THEN /\ res' = [Result("getReader", StreamLocked) EXCEPT !.ret = id]
          /\ UNCHANGED streams
     ELSE /\ res' = [Result("getReader", NoError) EXCEPT !.ret = id]
          /\ streams' = [streams EXCEPT ![id].locked = TRUE]
  /\ calls' = <<>>
  /\ bridge' = NoBridge
  /\ UNCHANGED <<parserVars, codecVars, confVars, sessVars, writeVars, readVars, kernVars>>

\* reader.releaseLock()
ReleaseLock(id) ==
  /\ id \in 1..streamCount
  /\ streams[id].locked
  /\ streams' = [streams EXCEPT ![id].locked = FALSE]
  /\ NoObservation
  /\ UNCHANGED <<parserVars, codecVars, confVars, sessVars, writeVars, readVars, kernVars>>

\* the cancel callback of a stream the getter created; the platform calls it
\* once, when a readable stream is cancelled
CancelStream(id) ==
  /\ id \in 1..streamCount
  /\ streams[id].state = "readable"
  /\ readableStream' = 0
  /\ streams' = [streams EXCEPT ![id].state = "closed", ![id].session = FALSE]
  /\ NoObservation
  /\ UNCHANGED <<parserVars, codecVars, confVars, fd, isOpen, originalTermios, streamCount, writeVars, readVars,
                 kernVars>>

\* the pull callback of a stream whose captured descriptor is closed: the
\* bridge read raises and the catch block errors the stream
PullFails(id) ==
  /\ id \in 1..streamCount
  /\ streams[id].state = "readable"
  /\ streams[id].fd \notin kfds
  /\ streams' = [streams EXCEPT ![id].state = "errored"]
  /\ res' = NoResult
  /\ calls' = <<Sys("read", streams[id].fd, "", "", EBADF)>>
  /\ bridge' = BridgeIo("read", 0 - 1, EBADF)
  /\ UNCHANGED <<parserVars, codecVars, confVars, sessVars, writeVars, readVars, kernVars>>

\* the pull callback of a stream whose captured descriptor number is open in
\* the kernel: one bridge read into the stream's buffer; the bytes read are
\* handed to the consumer, a failure errors the stream
Pull(id) ==
  /\ id \in 1..streamCount
  /\ streams[id].state = "readable"
  /\ streams[id].fd \in kfds
  /\ \E k \in ReadOutcomes(options.highWaterMark, rxq, streams[id].fd) :
       LET b == BridgeIo("read", k.ret, k.errno) IN
         /\ bridge' = b
         /\ calls' = <<Sys("read", streams[id].fd, "", "", IF k.ret < 0 THEN k.errno ELSE 0)>>
         /\ streams' = IF b.threw THEN [streams EXCEPT ![id].state = "errored"] ELSE streams
         /\ rxq' = IF b.threw THEN rxq ELSE SubSeq(rxq, b.ret + 1, Len(rxq))
  /\ res' = NoResult
  /\ UNCHANGED <<parserVars, codecVars, confVars, sessVars, writeVars, readVars, kfds, devAttr, modem, rxCount,
                 lockVars>>

\* the peer changes the input lines; DTR and RTS stay as the session set them
LineChange ==
  /\ kfds # {}
  /\ \E w \in LineStates :
       modem' = w + (IF BitSet(modem, TIOCM_DTR) THEN TIOCM_DTR ELSE 0)
                  + (IF BitSet(modem, TIOCM_RTS) THEN TIOCM_RTS ELSE 0)
  /\ NoObservation
  /\ UNCHANGED <<parserVars, streams, codecVars, confVars, sessVars, writeVars, readVars, kfds, devAttr, rxq, rxCount,
                 lockVars>>

(* ----------------------- a second session (peer) ----------------------- *)
\* another SerialPort with lock = true on the same path completes its
\* open(): descriptor, exclusive mode, snapshot, configuration, flush
PeerOpen ==
  /\ peer = NoPeer
  /\ ~ExclusiveOpenRefused
  /\ LET newfd == LowestFree(kfds) IN
       /\ peer' = [fd |-> newfd, originalTermios |-> devAttr]
       /\ kfds' = kfds \cup {newfd}
  /\ excl' = TRUE
  /\ devAttr' = ConfiguredAttr
  /\ rxq' = <<>>
  /\ NoObservation
  /\ UNCHANGED <<parserVars, streams, codecVars, confVars, sessVars, writeVars, readVars, modem, rxCount>>

\* the other session completes its close(): restore, unlock, descriptor
PeerClose ==
  /\ peer # NoPeer
  /\ peer' = NoPeer
  /\ kfds' = kfds \ {peer.fd}
  /\ excl' = FALSE
  /\ devAttr' = peer.originalTermios
  /\ NoObservation
  /\ UNCHANGED <<parserVars, streams, codecVars, confVars, sessVars, writeVars, readVars, modem, rxq, rxCount>>

(* ---------------------- termios tables and codec ----------------------- *)
\* The mode words and speeds of the model are below 2^31: on that range the
\* signed 32-bit results of JavaScript's &, | and ~ are the unsigned ones.

\* a 32-bit word is held as the int32 with the same bits, which is what the
\* bitwise operators of the language produce: bit 31 is the sign
Low31(a) == IF a < 0 THEN a + 2147483647 + 1 ELSE a
\* a & b
RECURSIVE And(_, _)
And(a, b) ==
  IF a < 0 \/ b < 0
  THEN IF a < 0 /\ b < 0 THEN And(Low31(a), Low31(b)) - 2147483647 - 1
       ELSE And(Low31(a), Low31(b))
  ELSE IF a = 0 \/ b = 0 THEN 0
  ELSE (a % 2) * (b % 2) + 2 * And(a \div 2, b \div 2)
\* a | b
Or(a, b) == (a - And(a, b)) + b
\* a & ~m
AndNot(a, m) == a - And(a, m)

\* platformConfig.termiosSize
termiosSize(p) == IF isDarwin(p) THEN 72 ELSE 60
\* CC: indices into c_cc, and its length
CC(p) == [VTIME |-> 5, VMIN |-> 6, NCCS |-> IF isDarwin(p) THEN 20 ELSE 19]

IFLAG ==
  [IGNBRK |-> 1, BRKINT |-> 2, PARMRK |-> 8, ISTRIP |-> 32, INLCR |-> 64,
   IGNCR |-> 128, ICRNL |-> 256, IXON |-> 1024, IXANY |-> 2048, IXOFF |-> 4096]
OFLAG == [OPOST |-> 1]
LFLAG == [ISIG |-> 1, ICANON |-> 2, ECHO |-> 8, ECHONL |-> 64, IEXTEN |-> 32768]

\* CFLAG: the control-flag table of the platform; on Linux with the baud
\* codes B[rate] of the supported rates and the mask CBAUD
CFLAG(p) ==
  IF isDarwin(p)
  THEN [CSIZE |-> 768, CS5 |-> 0, CS6 |-> 256, CS7 |-> 512, CS8 |-> 768,
        CSTOPB |-> 1024, CREAD |-> 2048, PARENB |-> 4096, PARODD |-> 8192,
        HUPCL |-> 16384, CLOCAL |-> 32768, CRTSCTS |-> 196608]
  ELSE [B |-> (0 :> 0) @@ (50 :> 1) @@ (75 :> 2) @@ (110 :> 3) @@ (134 :> 4)
              @@ (150 :> 5) @@ (200 :> 6) @@ (300 :> 7) @@ (600 :> 8)
              @@ (1200 :> 9) @@ (1800 :> 10) @@ (2400 :> 11) @@ (4800 :> 12)
              @@ (9600 :> 13) @@ (19200 :> 14) @@ (38400 :> 15)
              @@ (57600 :> 4097) @@ (115200 :> 4098) @@ (230400 :> 4099),
        CSIZE |-> 48, CS5 |-> 0, CS6 |-> 16, CS7 |-> 32, CS8 |-> 48,
        CSTOPB |-> 64, CREAD |-> 128, PARENB |-> 256, PARODD |-> 512,
        HUPCL |-> 1024, CLOCAL |-> 2048, CBAUD |-> 4111, CMSPAR |-> 1073741824,
        CRTSCTS |-> 0 - 2147483647 - 1]

\* a step that leaves CRTSCTS as the kernel had it
ClearCRTSCTSNowhere(p, c) == c
\* c & ~CFLAG.CRTSCTS (on Linux CRTSCTS is bit 31, its complement 0x7FFFFFFF)
ClearCRTSCTS(p, c) ==
  IF isDarwin(p) THEN AndNot(c, CFLAG(p).CRTSCTS) ELSE And(c, 2147483647)

\* platformConfig.baudRateConstants: the value of B<rate>
baudRateConstants(p) ==
  IF isDarwin(p) THEN [b \in BaudRates |-> b]
  ELSE (0 :> 0) @@ (50 :> 1) @@ (75 :> 2) @@ (110 :> 3) @@ (134 :> 4)
       @@ (150 :> 5) @@ (200 :> 6) @@ (300 :> 7) @@ (600 :> 8)
       @@ (1200 :> 9) @@ (1800 :> 10) @@ (2400 :> 11) @@ (4800 :> 12)
       @@ (9600 :> 13) @@ (19200 :> 14) @@ (38400 :> 15)
       @@ (57600 :> 65537) @@ (115200 :> 65538) @@ (230400 :> 65539)

\* getBaudRateValue: the mapped constant, the rate itself on Darwin, NULL
\* when it throws
getBaudRateValue(p, baudRate) ==
  IF baudRate \in BaudRates THEN baudRateConstants(p)[baudRate]
  ELSE IF isDarwin(p) THEN baudRate
  ELSE NULL

\* byte k (little-endian position) of a non-negative number
RECURSIVE ByteOf(_, _)
ByteOf(v, k) == IF k = 0 THEN v % 256 ELSE ByteOf(v \div 256, k - 1)

\* DataView.setUint32 / setBigUint64(off, v, littleEndian): n bytes from off
setUint(buf, off, n, v) ==
  [i \in 1..Len(buf) |->
     IF i - 1 >= off /\ i - 1 < off + n THEN ByteOf(v, i - 1 - off) ELSE buf[i]]

\* DataView.getUint32 / Number(getBigUint64(off, littleEndian)): n bytes from off
RECURSIVE getUint(_, _, _)
getUint(buf, off, n) ==
  IF n = 0 THEN 0 ELSE buf[off + 1] + 256 * getUint(buf, off + 1, n - 1)

\* DataView.getUint32(off, true), as the int32 with the same bits
getUint32(buf, off) ==
  getUint(buf, off, 3)
  + 16777216 * (IF buf[off + 4] < 128 THEN buf[off + 4] ELSE buf[off + 4] - 256)

\* Uint8Array.set(arr, off)
setBytes(buf, off, arr) ==
  [i \in 1..Len(buf) |->
     IF i - 1 >= off /\ i - 1 < off + Len(arr) THEN arr[i - off] ELSE buf[i]]

\* Uint8Array.slice(from, to)
slice(buf, from, to) == SubSeq(buf, from + 1, to)

\* createTermiosBuffer: termiosSize zero bytes
createTermiosBuffer(p) == [i \in 1..termiosSize(p) |-> 0]

parseTermios(p, buf) ==
  IF isDarwin(p)
  THEN [c_iflag |-> getUint(buf, 0, 8),
        c_oflag |-> getUint(buf, 8, 8),
        c_cflag |-> getUint(buf, 16, 8),
        c_lflag |-> getUint(buf, 24, 8),
        c_cc |-> slice(buf, 32, 52),
        c_ispeed |-> getUint(buf, 56, 8),
        c_ospeed |-> getUint(buf, 64, 8)]
  ELSE [c_iflag |-> getUint32(buf, 0),
        c_oflag |-> getUint32(buf, 4),
        c_cflag |-> getUint32(buf, 8),
        c_lflag |-> getUint32(buf, 12),
        c_line |-> buf[17],
        c_cc |-> slice(buf, 17, 36),
        c_ispeed |-> getUint32(buf, 36),
        c_ospeed |-> getUint32(buf, 40)]

\* a line-discipline byte that is always written as zero
LineByteZero(t) == 0
\* termios.c_line ?? 0
LineByte(t) == IF "c_line" \in DOMAIN t THEN t.c_line ELSE 0

\* writeTermios(termios, buffer): the bytes of buffer afterwards
writeTermios(p, t, buf) ==
  IF isDarwin(p)
  THEN LET b1 == setUint(buf, 0, 8, t.c_iflag)
           b2 == setUint(b1, 8, 8, t.c_oflag)
           b3 == setUint(b2, 16, 8, t.c_cflag)
           b4 == setUint(b3, 24, 8, t.c_lflag)
           b5 == setBytes(b4, 32, t.c_cc)
           b6 == setUint(b5, 56, 8, t.c_ispeed)
       IN setUint(b6, 64, 8, t.c_ospeed)
  ELSE LET b1 == setUint(buf, 0, 4, t.c_iflag)
           b2 == setUint(b1, 4, 4, t.c_oflag)
           b3 == setUint(b2, 8, 4, t.c_cflag)
           b4 == setUint(b3, 12, 4, t.c_lflag)
           b5 == setUint(b4, 16, 1, LineByte(t))
           b6 == setBytes(b5, 17, t.c_cc)
           b7 == setUint(b6, 36, 4, t.c_ispeed)
       IN setUint(b7, 40, 4, t.c_ospeed)

\* a raw-mode step that flips OPOST where makeRaw clears it
makeRawFlip(p, t) ==
  [t EXCEPT !.c_oflag = IF And(@, OFLAG.OPOST) = 0 THEN @ + OFLAG.OPOST ELSE @ - OFLAG.OPOST]
\* makeRaw(termios)
makeRaw(p, t) ==
  LET imask == Or(IFLAG.IGNBRK, Or(IFLAG.BRKINT, Or(IFLAG.PARMRK, Or(IFLAG.ISTRIP,
                 Or(IFLAG.INLCR, Or(IFLAG.IGNCR, Or(IFLAG.ICRNL, IFLAG.IXON)))))))
      lmask == Or(LFLAG.ECHO, Or(LFLAG.ECHONL, Or(LFLAG.ICANON,
                 Or(LFLAG.ISIG, LFLAG.IEXTEN))))
  IN [t EXCEPT !.c_iflag = AndNot(@, imask),
               !.c_oflag = AndNot(@, OFLAG.OPOST),
               !.c_lflag = AndNot(@, lmask),
               !.c_cflag = Or(AndNot(@, Or(CFLAG(p).CSIZE, CFLAG(p).PARENB)), CFLAG(p).CS8),
               !.c_cc = [[@ EXCEPT ![CC(p).VMIN + 1] = 0] EXCEPT ![CC(p).VTIME + 1] = 0]]

(* ---------------------------- configurePort ---------------------------- *)
\* the options the model's records leave at the constructor's defaults
OptionDefaults ==
  [rtscts |-> FALSE, xon |-> FALSE, xoff |-> FALSE, xany |-> FALSE, hupcl |-> TRUE]

\* this.options: what the caller passed, with the constructor's default for
\* each of these options the caller left out
WithDefaults(o) ==
  [f \in DOMAIN OptionDefaults |-> IF f \in DOMAIN o THEN o[f] ELSE OptionDefaults[f]]

\* the baud step: on Linux the code goes into c_cflag and both speed fields
setBaud(p, t, baudValue) ==
  IF ~isDarwin(p)
  THEN [t EXCEPT !.c_cflag = Or(AndNot(@, CFLAG(p).CBAUD), baudValue),
                 !.c_ispeed = baudValue,
                 !.c_ospeed = baudValue]
  ELSE t

\* c_cflag after the data-bits, stop-bits and parity steps (the parity is
\* one configurePort accepts on this platform)
framedCflag(p, c, o) ==
  LET F == CFLAG(p)
      c1 == AndNot(c, F.CSIZE)
      c2 == CASE o.dataBits = 5 -> Or(c1, F.CS5)
              [] o.dataBits = 6 -> Or(c1, F.CS6)
              [] o.dataBits = 7 -> Or(c1, F.CS7)
              [] o.dataBits = 8 -> Or(c1, F.CS8)
              [] OTHER -> c1
      c3 == IF o.stopBits = 2 THEN Or(c2, F.CSTOPB) ELSE AndNot(c2, F.CSTOPB)
  IN CASE o.parity = "none" -> AndNot(c3, F.PARENB)
       [] o.parity = "even" -> AndNot(Or(c3, F.PARENB), F.PARODD)
       [] o.parity = "odd" -> Or(Or(c3, F.PARENB), F.PARODD)
       [] o.parity = "mark" -> Or(Or(Or(c3, F.PARENB), F.PARODD), F.CMSPAR)
       [] o.parity = "space" -> Or(AndNot(Or(c3, F.PARENB), F.PARODD), F.CMSPAR)
       [] OTHER -> c3

\* the steps after the baud step up to "Apply settings"
setFraming(p, t, o) ==
  LET F == CFLAG(p)
      d == WithDefaults(o)
      c4 == framedCflag(p, t.c_cflag, o)
      c5 == IF d.rtscts THEN Or(c4, F.CRTSCTS) ELSE ClearCRTSCTS(p, c4)
      c6 == Or(Or(c5, F.CREAD), F.CLOCAL)
      c7 == IF d.hupcl THEN Or(c6, F.HUPCL) ELSE AndNot(c6, F.HUPCL)
      xmask == Or(IFLAG.IXON, IFLAG.IXOFF)
      i1 == IF d.xon \/ d.xoff
            THEN IF d.xany THEN Or(Or(t.c_iflag, xmask), IFLAG.IXANY)
                 ELSE Or(t.c_iflag, xmask)
            ELSE AndNot(t.c_iflag, Or(xmask, IFLAG.IXANY))
  IN [t EXCEPT !.c_cflag = c7, !.c_iflag = i1]

\* the buffer writeTermios is handed: the one tcgetattr filled
EncodeTargetFresh(p, buf) == createTermiosBuffer(p)
EncodeTarget(p, buf) == buf

\* the words and bytes of the kernel images the model starts from
LE(v, n) == [k \in 1..n |-> ByteOf(v, k - 1)]
Fill(n, b) == [k \in 1..n |-> b]
CcImage(p) == [k \in 1..CC(p).NCCS |-> k]
\* the kernel's struct termios: the fields in the platform's layout, then
\* the bytes the codec does not model
KernelImage(p, cflag, pad) ==
  IF isDarwin(p)
  THEN LE(1286, 8) \o LE(5, 8) \o LE(cflag, 8) \o LE(35387, 8) \o CcImage(p)
       \o Fill(4, pad) \o LE(9600, 8) \o LE(9600, 8)
  ELSE LE(1286, 4) \o LE(5, 4) \o LE(cflag, 4) \o LE(35387, 4) \o <<1>> \o CcImage(p)
       \o LE(13, 4) \o LE(13, 4) \o Fill(16, pad)
KernelImages(p) ==
  {KernelImage(p, c, pad) : c \in {0, 1073746127, 2147483647}, pad \in {0, 165}}

\* const termiosBuffer = createTermiosBuffer(); tcgetattr(this.fd, termiosBuffer)
TcGetAttr ==
  /\ tpc = "idle"
  /\ termiosBuffer' = kTermios
  /\ tpc' = "filled"
  /\ NoObservation
  /\ UNCHANGED <<parserVars, streams, confVars, sessVars, writeVars, readVars, kernVars, termios, kTermios>>

\* const termios = parseTermios(termiosBuffer)
ParseTermios ==
  /\ tpc = "filled"
  /\ termios' = parseTermios(platform, termiosBuffer)
  /\ tpc' = "parsed"
  /\ NoObservation
  /\ UNCHANGED <<parserVars, streams, confVars, sessVars, writeVars, readVars, kernVars, termiosBuffer, kTermios>>

\* makeRaw(termios)
MakeRaw ==
  /\ tpc = "parsed"
  /\ termios' = makeRaw(platform, termios)
  /\ tpc' = "raw"
  /\ NoObservation
  /\ UNCHANGED <<parserVars, streams, confVars, sessVars, writeVars, readVars, kernVars, termiosBuffer, kTermios>>

\* the baud step
SetBaud ==
  /\ tpc = "raw"
  /\ termios' = setBaud(platform, termios, getBaudRateValue(platform, options.baudRate))
  /\ tpc' = "baud"
  /\ NoObservation
  /\ UNCHANGED <<parserVars, streams, confVars, sessVars, writeVars, readVars, kernVars, termiosBuffer, kTermios>>

\* data bits, stop bits, parity, flow control, CREAD, CLOCAL, HUPCL; mark and
\* space parity throw on Darwin and configurePort is left
SetFraming ==
  /\ tpc = "baud"
  /\ IF ParityRejected(platform, options)
     THEN /\ termios' = NoTermios
          /\ termiosBuffer' = <<>>
          /\ tpc' = "idle"
     ELSE /\ termios' = setFraming(platform, termios, options)
          /\ tpc' = "framed"
          /\ UNCHANGED termiosBuffer
  /\ NoObservation
  /\ UNCHANGED <<parserVars, streams, confVars, sessVars, writeVars, readVars, kernVars, kTermios>>

\* writeTermios(termios, termiosBuffer)
WriteTermios ==
  /\ tpc = "framed"
  /\ termiosBuffer' = writeTermios(platform, termios, EncodeTarget(platform, termiosBuffer))
  /\ tpc' = "written"
  /\ NoObservation
  /\ UNCHANGED <<parserVars, streams, confVars, sessVars, writeVars, readVars, kernVars, termios, kTermios>>

\* on Darwin cfsetispeed and cfsetospeed store the speed in the buffer's
\* speed fields
CfSetSpeed ==
  /\ tpc = "written"
  /\ isDarwin(platform)
  /\ LET baudValue == getBaudRateValue(platform, options.baudRate)
     IN termiosBuffer' = setUint(setUint(termiosBuffer, 56, 8, baudValue), 64, 8, baudValue)
  /\ tpc' = "speed"
  /\ NoObservation
  /\ UNCHANGED <<parserVars, streams, confVars, sessVars, writeVars, readVars, kernVars, termios, kTermios>>

\* tcsetattr(this.fd, TCSA.TCSANOW, termiosBuffer), after which the locals
\* of configurePort are gone
TcSetAttr ==
  /\ \/ tpc = "speed"
     \/ tpc = "written" /\ ~isDarwin(platform)
  /\ kTermios' = termiosBuffer
  /\ termios' = NoTermios
  /\ termiosBuffer' = <<>>
  /\ tpc' = "idle"
  /\ NoObservation
  /\ UNCHANGED <<parserVars, streams, confVars, sessVars, writeVars, readVars, kernVars>>

(* ------------------------ the codec used directly ---------------------- *)
\* the attribute values a caller of the codec holds
WordSamples == {0, 16909060, 2147483647}
SpeedSamples == {13, 65537}
CcSamples(p) == {CcImage(p), Fill(CC(p).NCCS, 255)}
AttrSamples(p) ==
  LET words == [c_iflag : WordSamples, c_oflag : WordSamples,
                c_cflag : {4111, 2147483647}, c_lflag : {0, 35387},
                c_cc : CcSamples(p), c_ispeed : SpeedSamples, c_ospeed : SpeedSamples]
  IN IF isDarwin(p) THEN words
     ELSE {[c_iflag |-> w.c_iflag, c_oflag |-> w.c_oflag, c_cflag |-> w.c_cflag,
            c_lflag |-> w.c_lflag, c_line |-> l, c_cc |-> w.c_cc,
            c_ispeed |-> w.c_ispeed, c_ospeed |-> w.c_ospeed] :
           w \in words, l \in {0, 255}}
BufferSamples(p) == {createTermiosBuffer(p), Fill(termiosSize(p), 165)}

\* writeTermios(attrs, buffer) called with the attributes at hand
Encode ==
  /\ tpc \in {"attrs", "decoded"}
  /\ termiosBuffer' = writeTermios(platform, termios, termiosBuffer)
  /\ tpc' = "encoded"
  /\ NoObservation
  /\ UNCHANGED <<parserVars, streams, confVars, sessVars, writeVars, readVars, kernVars, termios, kTermios>>

\* parseTermios(buffer) of an encoded buffer
Decode ==
  /\ tpc = "encoded"
  /\ termios' = parseTermios(platform, termiosBuffer)
  /\ tpc' = "decoded"
  /\ NoObservation
  /\ UNCHANGED <<parserVars, streams, confVars, sessVars, writeVars, readVars, kernVars, termiosBuffer, kTermios>>

(* ----------------------------- stream parsers -------------------------- *)
\* the least element of a non-empty set of numbers
SetMin(S) == CHOOSE x \in S : \A y \in S : x <= y

\* BaseParser.indexOf: the first position (from 0) of delimiter in buffer,
\* NULL when there is none
indexOf(buf, delimiter) ==
  IF Len(delimiter) = 0 \/ Len(buf) < Len(delimiter) THEN NULL
  ELSE LET hits == {i \in 0..(Len(buf) - Len(delimiter)) :
                      SubSeq(buf, i + 1, i + Len(delimiter)) = delimiter}
       IN IF hits = {} THEN NULL ELSE SetMin(hits)

\* Uint8Array.slice(from) to the end
sliceFrom(buf, from) == SubSeq(buf, from + 1, Len(buf))

\* a frame enqueued by the transform or by the flush callback
Frame(by, data) == [by |-> by, data |-> data]

\* a size check that never fires
OverflowsNever(buf, cfg) == FALSE
\* this.buffer.length > this.maxBufferSize
Overflows(buf, cfg) == Len(buf) > cfg.maxBufferSize

\* a frame that never carries the delimiter
DelimiterFrameBare(buf, position, cfg) == slice(buf, 0, position)
\* the data cut off at a delimiter found at position
DelimiterFrame(buf, position, cfg) ==
  IF cfg.includeDelimiter
  THEN slice(buf, 0, position + Len(cfg.delimiter))
  ELSE slice(buf, 0, position)

\* data.length > 0 || this.includeDelimiter
FrameEnqueued(data, cfg) == Len(data) > 0 \/ cfg.includeDelimiter

\* the while loop of DelimiterParser.processChunk: the buffer and the
\* frames after it
RECURSIVE DelimiterScan(_, _, _)
DelimiterScan(buf, out, cfg) ==
  LET position == indexOf(buf, cfg.delimiter)
  IN IF position = NULL THEN [buffer |-> buf, out |-> out]
     ELSE LET data == DelimiterFrame(buf, position, cfg)
          IN DelimiterScan(sliceFrom(buf, position + Len(cfg.delimiter)),
                           IF FrameEnqueued(data, cfg)
                           THEN Append(out, Frame("transform", data)) ELSE out,
                           cfg)

\* TextDecoder('utf-8'), over ASCII, two-byte lead and continuation bytes
\* (any other byte decodes to U+FFFD): the text (code points) and the bytes
\* held back after the bytes given
IsAscii(b) == b < 128
IsCont(b) == b >= 128 /\ b <= 191
IsLead2(b) == b >= 194 /\ b <= 223
RECURSIVE Utf8Run(_, _, _)
Utf8Run(pend, bytes, text) ==
  IF bytes = <<>> THEN [text |-> text, pend |-> pend]
  ELSE LET b == Head(bytes)
       IN IF pend # <<>>
          THEN IF IsCont(b)
               THEN Utf8Run(<<>>, Tail(bytes),
                            Append(text, (pend[1] - 192) * 64 + (b - 128)))
               ELSE Utf8Run(<<>>, bytes, Append(text, 65533))
          ELSE IF IsAscii(b) THEN Utf8Run(<<>>, Tail(bytes), Append(text, b))
          ELSE IF IsLead2(b) THEN Utf8Run(<<b>>, Tail(bytes), text)
          ELSE Utf8Run(<<>>, Tail(bytes), Append(text, 65533))

\* decoder.decode(bytes, { stream }): with stream set an incomplete sequence
\* at the end is held back for the next call, otherwise it decodes to U+FFFD
decode(pend, bytes, stream) ==
  LET r == Utf8Run(pend, bytes, <<>>)
  IN IF stream \/ r.pend = <<>> THEN r
     ELSE [text |-> Append(r.text, 65533), pend |-> <<>>]

\* the while loop of ReadlineParser.processChunk: the buffer, the frames
\* and the decoder's held-back bytes after it
RECURSIVE ReadlineScan(_, _, _, _)
ReadlineScan(buf, out, pend, cfg) ==
  LET position == indexOf(buf, cfg.delimiter)
  IN IF position = NULL THEN [buffer |-> buf, out |-> out, pend |-> pend]
     ELSE LET data == DelimiterFrame(buf, position, cfg)
              rest == sliceFrom(buf, position + Len(cfg.delimiter))
          IN IF FrameEnqueued(data, cfg)
             THEN LET line == decode(pend, data, TRUE)
                  IN ReadlineScan(rest,
                                  IF Len(line.text) > 0
                                  THEN Append(out, Frame("transform", line.text)) ELSE out,
                                  line.pend, cfg)
             ELSE ReadlineScan(rest, out, pend, cfg)

\* the while loop of ByteLengthParser.processChunk
RECURSIVE ByteLengthScan(_, _, _)
ByteLengthScan(buf, out, cfg) ==
  IF Len(buf) >= cfg.length
  THEN ByteLengthScan(sliceFrom(buf, cfg.length),
                      Append(out, Frame("transform", slice(buf, 0, cfg.length))), cfg)
  ELSE [buffer |-> buf, out |-> out]

\* a flush that emits the buffer even when it is empty
FlushEmitsAlways(buf) == TRUE
\* if (this.buffer.length > 0)
FlushEmits(buf) == Len(buf) > 0

\* the parsers the model constructs
DelimiterConfigs ==
  {[kind |-> "delimiter", delimiter |-> d, includeDelimiter |-> i, maxBufferSize |-> m] :
     d \in {<<124>>, <<124, 124>>}, i \in BOOLEAN, m \in {3, 65536}}
ReadlineConfigs ==
  {[kind |-> "readline", delimiter |-> <<10>>, includeDelimiter |-> i, maxBufferSize |-> m] :
     i \in BOOLEAN, m \in {3, 65536}}
ByteLengthConfigs == {[kind |-> "bytelength", length |-> n] : n \in {2, 3}}

\* the byte values the chunks are made of: a letter and '|' for the byte
\* parsers; '\n', a two-byte lead and a continuation byte for the Readline
\* parser
ChunkBytes(cfg) == IF cfg.kind = "readline" THEN {10, 195, 169} ELSE {97, 124}
\* the non-empty chunks of at most n bytes
Chunks(cfg, n) == UNION {[1..k -> ChunkBytes(cfg)] : k \in 1..n}

\* a concat that keeps only the new chunk
concatFresh(a, b) == b
\* this.concat(this.buffer, chunk)
concat(a, b) == a \o b

\* the stream calls transform(chunk): processChunk; an errored stream
\* rejects the write without calling the parser
Push(chunk) ==
  /\ pStream \in {"open", "errored"}
  /\ pWritten' = pWritten \o chunk
  /\ IF pStream = "errored"
     THEN UNCHANGED <<pBuffer, pPending, pFrames, pStream>>
     ELSE LET buf == concat(pBuffer, chunk)
          IN IF parser.kind = "bytelength"
             THEN LET r == ByteLengthScan(buf, pFrames, parser)
                  IN /\ pBuffer' = r.buffer
                     /\ pFrames' = r.out
                     /\ UNCHANGED <<pPending, pStream>>
             ELSE IF Overflows(buf, parser)
             THEN /\ pBuffer' = buf
                  /\ pStream' = "errored"
                  /\ UNCHANGED <<pPending, pFrames>>
             ELSE IF parser.kind = "delimiter"
             THEN LET r == DelimiterScan(buf, pFrames, parser)
                  IN /\ pBuffer' = r.buffer
                     /\ pFrames' = r.out
                     /\ UNCHANGED <<pPending, pStream>>
             ELSE LET r == ReadlineScan(buf, pFrames, pPending, parser)
                  IN /\ pBuffer' = r.buffer
                     /\ pFrames' = r.out
                     /\ pPending' = r.pend
                     /\ UNCHANGED pStream
  /\ NoObservation
  /\ UNCHANGED <<parser, streams, codecVars, confVars, sessVars, writeVars, readVars, kernVars>>

\* the stream is closed: flush(controller) calls processFlush; an errored
\* stream rejects the close without calling the parser
Finish ==
  /\ pStream \in {"open", "errored"}
  /\ IF pStream = "errored"
     THEN UNCHANGED <<pBuffer, pPending, pFrames, pStream>>
     ELSE /\ pStream' = "closed"
          /\ IF parser.kind = "readline"
             THEN LET line == IF FlushEmits(pBuffer) THEN decode(pPending, pBuffer, FALSE)
                              ELSE [text |-> <<>>, pend |-> pPending]
                      f1 == IF Len(line.text) > 0
                            THEN Append(pFrames, Frame("flush", line.text)) ELSE pFrames
                      final == decode(line.pend, <<>>, FALSE)
                  IN /\ pFrames' = IF Len(final.text) > 0
                                   THEN Append(f1, Frame("flush", final.text)) ELSE f1
                     /\ pPending' = final.pend
                     /\ pBuffer' = <<>>
             ELSE /\ pFrames' = IF FlushEmits(pBuffer)
                                THEN Append(pFrames, Frame("flush", pBuffer)) ELSE pFrames
                  /\ pBuffer' = <<>>
                  /\ UNCHANGED pPending
  /\ NoObservation
  /\ UNCHANGED <<parser, streams, pWritten, codecVars, confVars, sessVars, writeVars, readVars, kernVars>>

(* --------------------------- specification ----------------------------- *)
Next ==
  \/ Construct
  \/ Open
  \/ Close
  \/ Dispose
  \/ \E data \in Payloads : WriteStart(data)
  \/ WriteComplete
  \/ WriteSleepDone
  \/ \E size \in ReadSizes : ReadStart(size)
  \/ ReadComplete
  \/ DeviceReceive
  \/ \E direction \in {"input", "output", "both"} : Flush(direction)
  \/ Drain
  \/ SendBreak
  \/ GetSignals
  \/ \E signals \in SignalRequests : SetSignals(signals)
  \/ LineChange
  \/ GetReadable
  \/ \E id \in 1..MaxStreams : GetReader(id)
  \/ \E id \in 1..MaxStreams : ReleaseLock(id)
  \/ \E id \in 1..MaxStreams : CancelStream(id)
  \/ \E id \in 1..MaxStreams : PullFails(id)
  \/ \E id \in 1..MaxStreams : Pull(id)
  \/ PeerOpen
  \/ PeerClose

Spec == Init /\ [][Next]_vars

\* the initial states with the default options, with and without the lock
InitDefault == Init /\ options \in {BaseOptions, [BaseOptions EXCEPT !.lock = FALSE]}
\* the initial states with the default options
InitBase == Init /\ options = BaseOptions
\* the initial states with the default options and the smallest and the
\* largest highWaterMark
InitRead == Init /\ options \in {[BaseOptions EXCEPT !.highWaterMark = h] : h \in {1, MaxHwm}}

\* the lifecycle with the synchronous pass-throughs and the stream getter
NextLifecycle ==
  \/ Construct
  \/ Open
  \/ Close
  \/ Dispose
  \/ \E direction \in {"input", "output", "both"} : Flush(direction)
  \/ Drain
  \/ SendBreak
  \/ GetReadable
  \/ \E id \in 1..MaxStreams : CancelStream(id)

SpecLifecycle == Init /\ [][NextLifecycle]_vars

\* the stream getter and the streams it hands out, over open/close cycles
NextStreams ==
  \/ Construct
  \/ Open
  \/ Close
  \/ GetReadable
  \/ \E id \in 1..MaxStreams : GetReader(id)
  \/ \E id \in 1..MaxStreams : ReleaseLock(id)
  \/ \E id \in 1..MaxStreams : CancelStream(id)
  \/ \E id \in 1..MaxStreams : PullFails(id)
  \/ \E id \in 1..MaxStreams : Pull(id)

\* one Linux session without the exclusive lock
InitStreams == Init /\ platform = "linux" /\ options = [BaseOptions EXCEPT !.lock = FALSE]

SpecStreams == InitStreams /\ [][NextStreams]_vars

\* the lifecycle with every runtime method invoked on a session that is not open
NextClosedOps ==
  \/ Construct
  \/ Open
  \/ Close
  \/ GetReadable
  \/ ~isOpen /\ \E data \in Payloads : WriteStart(data)
  \/ ~isOpen /\ \E size \in ReadSizes : ReadStart(size)
  \/ ~isOpen /\ \E direction \in {"input", "output", "both"} : Flush(direction)
  \/ ~isOpen /\ Drain
  \/ ~isOpen /\ SendBreak
  \/ ~isOpen /\ GetSignals
  \/ ~isOpen /\ \E signals \in SignalRequests : SetSignals(signals)

SpecClosedOps == Init /\ [][NextClosedOps]_vars

\* the lifecycle with the write() task
NextWrite ==
  \/ Construct
  \/ Open
  \/ Close
  \/ \E data \in Payloads : WriteStart(data)
  \/ WriteComplete
  \/ WriteSleepDone

SpecWrite == InitDefault /\ [][NextWrite]_vars

\* the write() task on a session that is not closed while the task runs;
\* the event loop delivers every bridge completion and every timer
NextWriteAlone ==
  \/ Construct
  \/ Open
  \/ wpc = "idle" /\ Close
  \/ \E data \in Payloads : WriteStart(data)
  \/ WriteComplete
  \/ WriteSleepDone

SpecWriteLive ==
  /\ InitBase
  /\ [][NextWriteAlone]_vars
  /\ WF_vars(WriteComplete)
  /\ WF_vars(WriteSleepDone)

\* the lifecycle with the read() task and the receiving device
NextRead ==
  \/ Construct
  \/ Open
  \/ Close
  \/ \E size \in ReadSizes : ReadStart(size)
  \/ ReadComplete
  \/ DeviceReceive

SpecRead == InitRead /\ [][NextRead]_vars

\* the lifecycle with both I/O tasks, under a caller that exchanges single
\* bytes and awaits each read or write before it starts the next
NextIo ==
  \/ Construct
  \/ Open
  \/ Close
  \/ rpc = "idle" /\ WriteStart(<<1>>)
  \/ WriteComplete
  \/ WriteSleepDone
  \/ wpc = "idle" /\ ReadStart(1)
  \/ ReadComplete
  \/ DeviceReceive

SpecIo == InitBase /\ [][NextIo]_vars

\* every public operation of one session, with one-byte transfers
NextSession ==
  \/ Construct
  \/ Open
  \/ Close
  \/ Dispose
  \/ Flush("both")
  \/ Drain
  \/ SendBreak
  \/ GetSignals
  \/ SetSignals([dtr |-> "true", rts |-> "undefined"])
  \/ rpc = "idle" /\ WriteStart(<<1>>)
  \/ WriteComplete
  \/ WriteSleepDone
  \/ wpc = "idle" /\ ReadStart(1)
  \/ ReadComplete

SpecSession == InitBase /\ [][NextSession]_vars

\* the same tasks on a session with and without the exclusive lock
SpecOpenIo == InitDefault /\ [][NextIo]_vars

\* the lifecycle beside a second session that locks the same device
NextExclusive ==
  \/ Construct
  \/ Open
  \/ Close
  \/ PeerOpen
  \/ PeerClose

SpecExclusive == InitDefault /\ [][NextExclusive]_vars

\* the lifecycle with the modem-control methods
NextSignals ==
  \/ Construct
  \/ Open
  \/ Close
  \/ GetSignals
  \/ \E signals \in SignalRequests : SetSignals(signals)
  \/ LineChange

SpecSignals == InitDefault /\ [][NextSignals]_vars

\* makeRaw(attrs) called with the attributes at hand, a first and a second time
ApplyMakeRaw ==
  /\ tpc \in {"attrs", "once"}
  /\ termios' = makeRaw(platform, termios)
  /\ tpc' = IF tpc = "attrs" THEN "once" ELSE "twice"
  /\ NoObservation
  /\ UNCHANGED <<parserVars, streams, confVars, sessVars, writeVars, readVars, kernVars, termiosBuffer, kTermios>>

\* a session that is not open, every task idle, nothing observed
SessionIdle ==
  /\ constructed = FALSE
  /\ fd = NULL
  /\ isOpen = FALSE
  /\ originalTermios = NoAttr
  /\ readableStream = 0
  /\ streamCount = 0
  /\ streams = <<>>
  /\ wpc = "idle" /\ wData = <<>> /\ wOff = 0 /\ wTotal = 0 /\ wFd = NULL
  /\ wChunk = <<>> /\ wAcc = <<>> /\ wRetries = 0
  /\ rpc = "idle" /\ rFd = NULL /\ rLen = 0 /\ rSize = NoSize /\ rCalls = 0
  /\ kfds = {}
  /\ devAttr \in PriorAttrs
  /\ modem = 0
  /\ rxq = <<>>
  /\ rxCount = 0
  /\ excl = FALSE
  /\ peer = NoPeer
  /\ bridge = NoBridge
  /\ res = NoResult
  /\ calls = <<>>

\* configurePort, statement by statement, for every rate of the baud table,
\* with and without mark parity, from each kernel image
InitConfigure ==
  /\ platform \in Platforms
  /\ options \in {[BaseOptions EXCEPT !.baudRate = b, !.parity = par] :
                    b \in BaudRates, par \in {"none", "mark"}}
  /\ SessionIdle
  /\ ParserIdle
  /\ termios = NoTermios
  /\ termiosBuffer = <<>>
  /\ kTermios \in KernelImages(platform)
  /\ tpc = "idle"

NextConfigure ==
  \/ TcGetAttr
  \/ ParseTermios
  \/ MakeRaw
  \/ SetBaud
  \/ SetFraming
  \/ WriteTermios
  \/ CfSetSpeed
  \/ TcSetAttr

SpecConfigure == InitConfigure /\ [][NextConfigure]_vars

\* configurePort at one baud rate with each parity the options accept
InitParity ==
  /\ platform \in Platforms
  /\ options \in {[BaseOptions EXCEPT !.parity = par] :
                    par \in {"none", "even", "odd", "mark", "space"}}
  /\ SessionIdle
  /\ ParserIdle
  /\ termios = NoTermios
  /\ termiosBuffer = <<>>
  /\ kTermios \in KernelImages(platform)
  /\ tpc = "idle"

SpecParity == InitParity /\ [][NextConfigure]_vars

\* option records that name the framing and flow-control options: each
\* combination of xon/xoff/xany, and each combination of dataBits, stopBits,
\* rtscts and hupcl
FramingOptions ==
  {BaseOptions @@ [rtscts |-> FALSE, hupcl |-> TRUE, xon |-> x, xoff |-> y, xany |-> z] :
     x \in BOOLEAN, y \in BOOLEAN, z \in BOOLEAN}
  \cup {[BaseOptions EXCEPT !.dataBits = d, !.stopBits = b]
          @@ [rtscts |-> r, hupcl |-> h, xon |-> FALSE, xoff |-> FALSE, xany |-> FALSE] :
          d \in 5..8, b \in {1, 2}, r \in BOOLEAN, h \in BOOLEAN}

\* kernel attributes with no mode bit set and with every mode bit set
FramingImages(p) ==
  {setUint(KernelImage(p, c, 0), 0, IF isDarwin(p) THEN 8 ELSE 4, i) :
     c \in IF isDarwin(p) THEN {0, 2147483647} ELSE {0, 0 - 1},
     i \in {0, 2147483647}}

InitFraming ==
  /\ platform \in Platforms
  /\ options \in FramingOptions
  /\ SessionIdle
  /\ ParserIdle
  /\ termios = NoTermios
  /\ termiosBuffer = <<>>
  /\ kTermios \in FramingImages(platform)
  /\ tpc = "idle"

SpecFraming == InitFraming /\ [][NextConfigure]_vars

\* the codec called with attributes and a buffer of the caller
InitCodec ==
  /\ platform \in Platforms
  /\ options = BaseOptions
  /\ SessionIdle
  /\ ParserIdle
  /\ termios \in AttrSamples(platform)
  /\ termiosBuffer \in BufferSamples(platform)
  /\ kTermios = <<>>
  /\ tpc = "attrs"

NextCodec ==
  \/ Encode
  \/ Decode

SpecCodec == InitCodec /\ [][NextCodec]_vars

\* makeRaw called with attributes of the caller
InitRaw ==
  /\ platform \in Platforms
  /\ options = BaseOptions
  /\ SessionIdle
  /\ ParserIdle
  /\ termios \in AttrSamples(platform)
  /\ termiosBuffer = <<>>
  /\ kTermios = <<>>
  /\ tpc = "attrs"

NextRaw == ApplyMakeRaw

SpecRaw == InitRaw /\ [][NextRaw]_vars

\* a parser of each kind, just constructed, piped to a stream that is open
InitParsers ==
  /\ platform = "linux"
  /\ options = BaseOptions
  /\ SessionIdle
  /\ termios = NoTermios /\ termiosBuffer = <<>> /\ kTermios = <<>> /\ tpc = "idle"
  /\ parser \in DelimiterConfigs \cup ReadlineConfigs \cup ByteLengthConfigs
  /\ pBuffer = <<>>
  /\ pPending = <<>>
  /\ pFrames = <<>>
  /\ pStream = "open"
  /\ pWritten = <<>>

NextParsers ==
  \/ \E chunk \in Chunks(parser, MaxInput - Len(pWritten)) : Push(chunk)
  \/ Finish

SpecParsers == InitParsers /\ [][NextParsers]_vars

(* ------------------------------ properties ----------------------------- *)
\* the public operations guarded by PortClosed
RuntimeOps == {"read", "write", "flush", "drain", "sendBreak", "getSignals", "setSignals"}

\* positions of the bridge calls of the last step that failed in wrapper c
FailedCalls(c) == {i \in 1..Len(calls) : calls[i].call \in c /\ calls[i].err # 0}

\* C1: a read, write, flush, drain, sendBreak, getSignals or setSignals that
\* returns on a session that is not open (never opened, closed, or left by a
\* failed open) raises PortClosed, issues no bridge call and changes nothing
\* of the session, its tasks or the kernel; the only step that reaches the
\* bridge on such a session is open()
C1_ClosedSessionRaisesPortClosed ==
  [][~isOpen =>
       /\ res'.op \in RuntimeOps =>
            /\ res'.err = PortClosed
            /\ calls' = <<>>
            /\ UNCHANGED <<sessVars, writeVars, readVars, kernVars>>
       /\ calls' # <<>> => res'.op \in {"open", "constructor"}]_vars

\* C1 witness: setSignals raised PortClosed on a session whose open() failed
\* after the attribute snapshot was taken
C1_Witness ==
  /\ constructed /\ ~isOpen
  /\ originalTermios # NoAttr
  /\ res.op = "setSignals"
  /\ res.err = PortClosed

\* C2: when open() (called directly or by the constructor) raises, every
\* descriptor the step obtained from the bridge open was closed by a later
\* bridge close of the same step and is no longer in use, and the session is
\* Closed: not open and holding no descriptor
C2_FailedOpenClosesDescriptor ==
  (res.op \in {"open", "constructor"} /\ res.err.kind # "ok") =>
    /\ ~isOpen
    /\ fd = NULL
    /\ \A i \in 1..Len(calls) :
         (calls[i].call = "open" /\ calls[i].err = 0) =>
           /\ calls[i].fd \notin kfds
           /\ \E j \in (i + 1)..Len(calls) :
                calls[j].call = "close" /\ calls[j].fd = calls[i].fd

\* C2 witness: open() raised the failure of its last step, the tcflush, after
\* the descriptor was obtained, locked and configured
C2_Witness ==
  /\ res.op = "open"
  /\ res.err = BridgeError("tcflush", EIO)
  /\ calls # <<>>
  /\ calls[1].call = "open" /\ calls[1].err = 0
  /\ \E i \in 1..Len(calls) : calls[i].arg = "TIOCEXCL" /\ calls[i].err = 0

\* C3: after a close() (or dispose) that found the session open, so that it
\* reached the bridge, the session is Closed whatever failed and whether or
\* not the call raised: not open, no descriptor, no attribute snapshot and no
\* cached stream
C3_CloseAlwaysCloses ==
  (res.op \in {"close", "dispose"} /\ calls # <<>>) =>
    /\ ~isOpen
    /\ fd = NULL
    /\ originalTermios = NoAttr
    /\ readableStream = 0

\* C3 witness: a close() on a session that had handed out a stream raised the failure
\* of the descriptor close after its attribute restore had failed too
C3_Witness ==
  /\ res.op = "close"
  /\ res.err = BridgeError("close", EIO)
  /\ FailedCalls({"tcsetattr"}) # {}
  /\ streamCount > 0
  /\ ~isOpen

\* C4: when the attribute restore or the lock release of a close() fails, a
\* bridge close of the descriptor still follows the failed call, and what
\* close() raises, if anything, is the failure of that bridge close
C4_CloseSwallowsRestoreAndUnlock ==
  \A i \in FailedCalls({"tcsetattr", "ioctl"}) :
    res.op \in {"close", "dispose"} =>
      /\ \E j \in (i + 1)..Len(calls) : calls[j].call = "close" /\ calls[j].fd = calls[i].fd
      /\ res.err \in {NoError, BridgeError("close", calls[Len(calls)].err)}
      /\ res.err = NoError <=> calls[Len(calls)].err = 0

\* C4 witness: a close() returned normally although both the restore and the
\* lock release failed
C4_Witness ==
  /\ res.op = "close"
  /\ res.err = NoError
  /\ FailedCalls({"tcsetattr"}) # {}
  /\ FailedCalls({"ioctl"}) # {}
  /\ calls[Len(calls)].call = "close"

\* C5: a write() that returns normally returns the length of its data, and
\* the bytes the bridge writes accepted, concatenated in call order, are the
\* data; while the task runs, the accepted bytes are the prefix of the data
\* up to the offset
C5_WriteAcceptsEveryByte ==
  /\ (res.op = "write" /\ res.err = NoError) =>
       /\ res.ret = Len(res.inp)
       /\ res.out = res.inp
  /\ wpc # "idle" =>
       /\ wOff < Len(wData)
       /\ wTotal = wOff
       /\ wAcc = SubSeq(wData, 1, wOff)

\* C5 witness: a write() of the longest payload returned after a would-block
\* retry and after a bridge write that accepted part of its chunk (the last
\* chunk did not start on a chunk boundary)
C5_Witness ==
  /\ res.op = "write"
  /\ res.err = NoError
  /\ Len(res.inp) = MaxData
  /\ res.retries > 0
  /\ bridge.fn = "write"
  /\ bridge.ret > 0
  /\ (Len(res.inp) - bridge.ret) % WRITE_CHUNK_SIZE # 0

\* C6: a read() that passed the guard has issued exactly one bridge read,
\* both while it is in flight and when it returns or raises; the task is
\* either idle or waiting for that one call; and when the bridge read
\* returns 0 (would-block or zero bytes) the same step returns an empty result
C6_ReadIsOneShot ==
  /\ rpc \in {"idle", "inflight"}
  /\ rpc = "inflight" => rCalls = 1
  /\ (res.op = "read" /\ res.err # PortClosed) => res.ncalls = 1
  /\ (bridge.fn = "read" /\ ~bridge.threw /\ bridge.ret = 0) =>
       /\ res.op = "read"
       /\ res.err = NoError
       /\ res.out = <<>>
       /\ rpc = "idle"

\* C6 witness: the kernel answered a read with EAGAIN while bytes were
\* pending on the device, and read() returned empty after its single call
C6_Witness ==
  /\ bridge.fn = "read"
  /\ bridge.errno = EAGAIN
  /\ bridge.ret = 0
  /\ res.op = "read"
  /\ res.err = NoError
  /\ res.out = <<>>
  /\ res.ncalls = 1

\* the cap the interface states for a read of the given size
ReadCap(size, hwm) == IF size = NoSize THEN hwm ELSE Min(size, hwm)

\* C7: a read(size) that returns normally returns at most
\* min(size, highWaterMark) bytes for every size >= 0, and at most
\* highWaterMark bytes without a size; what it returns followed by what stays
\* pending is the sequence of bytes the device delivered, without gap
C7_ReadWithinRequestedSize ==
  (res.op = "read" /\ res.err = NoError) =>
    /\ Len(res.out) <= ReadCap(res.size, options.highWaterMark)
    /\ \A i \in 1..Len(res.out) : i > 1 => res.out[i] = res.out[i - 1] + 1
    /\ (res.out # <<>> /\ rxq # <<>>) => rxq[1] = res.out[Len(res.out)] + 1

\* C7 witness: read(0) returned a byte
C7_Witness ==
  /\ res.op = "read"
  /\ res.err = NoError
  /\ res.size = 0
  /\ Len(res.out) > 0

\* the would-block errno of a platform, as the interface states it
WouldBlockErrno(p) == IF isDarwin(p) THEN EAGAIN_MACOS ELSE EAGAIN

\* C8: a bridge read or write whose kernel call failed returns 0 when the
\* errno is the platform's would-block errno (11 on Linux, 35 on Darwin) and
\* raises for every other errno
C8_WouldBlockReturnsZero ==
  (bridge.fn \in {"read", "write"} /\ bridge.errno # NoErrno) =>
    IF bridge.errno = WouldBlockErrno(platform)
    THEN ~bridge.threw /\ bridge.ret = 0
    ELSE bridge.threw

\* C8 witness: on Darwin the bridge read raised for errno 35 and read()
\* passed the error on
C8_Witness ==
  /\ isDarwin(platform)
  /\ bridge.fn = "read"
  /\ bridge.errno = EAGAIN_MACOS
  /\ bridge.threw
  /\ res.op = "read"
  /\ res.err = BridgeError("read", EAGAIN_MACOS)

\* C9: on Darwin, a getSignals() on an open session returns the all-false
\* snapshot and a setSignals() returns normally; neither raises and neither
\* issues a bridge call, whatever the modem-control word of the device
C9_DarwinSignalsAreInert ==
  (isDarwin(platform) /\ isOpen) =>
    /\ res.op = "getSignals" =>
         res.err = NoError /\ res.sig = DefaultSignals /\ calls = <<>>
    /\ res.op = "setSignals" =>
         res.err = NoError /\ calls = <<>>

\* C9 witness: on Darwin getSignals() returned all-false while the device
\* held CTS asserted
C9_Witness ==
  /\ isDarwin(platform)
  /\ isOpen
  /\ BitSet(modem, TIOCM_CTS)
  /\ res.op = "getSignals"
  /\ res.sig = DefaultSignals

\* C10: on Linux, when an ioctl issued by getSignals() or setSignals() failed
\* with ENOTTY or ENODEV, the call raises OperationNotSupported and the
\* session is still open with its descriptor
C10_UnsupportedModemControl ==
  (isLinux(platform) /\ res.op \in {"getSignals", "setSignals"}) =>
    \A i \in FailedCalls({"ioctl"}) :
      calls[i].err \in {ENOTTY, ENODEV} =>
        /\ res.err = SerialPortError("OPERATION_NOT_SUPPORTED")
        /\ isOpen
        /\ fd # NULL

\* C10 witness: on Linux the TIOCMSET of a setSignals() failed with ENODEV
\* after its TIOCMGET succeeded
C10_Witness ==
  /\ isLinux(platform)
  /\ res.op = "setSignals"
  /\ Len(calls) = 2
  /\ calls[2].arg = "TIOCMSET" /\ calls[2].err = ENODEV
  /\ res.err = SerialPortError("OPERATION_NOT_SUPPORTED")
  /\ isOpen

InvalidConfiguration == SerialPortError("INVALID_CONFIGURATION")

\* C11: on Darwin a session asked for mark or space parity is never
\* constructed, and every constructor or open() result on it is the
\* configuration error with no bridge call issued; on Linux no constructor or
\* open() of such a session raises the configuration error
C11_DarwinRejectsMarkSpaceEarly ==
  options.parity \in {"mark", "space"} =>
    /\ isDarwin(platform) =>
         /\ ~constructed
         /\ res.op \in {"constructor", "open"} =>
              res.err = InvalidConfiguration /\ calls = <<>>
    /\ (isLinux(platform) /\ res.op \in {"constructor", "open"}) =>
         res.err # InvalidConfiguration

\* C11 witness: on Darwin a session with mark parity was constructed, and its
\* open() raised the configuration error only after the bridge open, the
\* lock ioctl and two tcgetattr calls
C11_Witness ==
  /\ isDarwin(platform)
  /\ options.parity = "mark"
  /\ constructed
  /\ res.op = "open"
  /\ res.err = InvalidConfiguration
  /\ Len(calls) >= 4
  /\ calls[1].call = "open"
  /\ calls[Len(calls)].call = "close"

\* the option values outside the documented domains of dataBits, stopBits
\* and parity
BadConfiguration(o) ==
  \/ o.dataBits \notin {5, 6, 7, 8}
  \/ o.stopBits \notin {1, 2}
  \/ o.parity \notin {"none", "even", "odd", "mark", "space"}

\* C12: a session whose baud rate the platform does not support, or whose
\* dataBits, stopBits or parity is outside its domain, is never constructed
\* and never reaches the bridge or the kernel; its constructor raises
\* InvalidBaudRate for the baud rate and InvalidConfiguration for the others,
\* with autoOpen set or not
C12_InvalidOptionsRejectedEarly ==
  LET badBaud == ~BaudRateSupported(platform, options.baudRate)
      badConf == BadConfiguration(options)
  IN  (badBaud \/ badConf) =>
        /\ ~constructed
        /\ calls = <<>>
        /\ kfds = {}
        /\ fd = NULL
        /\ res.op = "constructor" =>
             res.err = IF badBaud THEN SerialPortError("INVALID_BAUD_RATE")
                       ELSE InvalidConfiguration

\* C12 witness: with autoOpen set, the constructor raised InvalidConfiguration
\* for nine data bits without a bridge call
C12_Witness ==
  /\ options.autoOpen
  /\ options.dataBits = 9
  /\ res.op = "constructor"
  /\ res.err = InvalidConfiguration
  /\ calls = <<>>

\* the bridge open of the last step failed with errno e
OpenSyscallFailed(e) ==
  /\ res.op \in {"open", "constructor"}
  /\ calls # <<>>
  /\ calls[1].call = "open"
  /\ calls[1].err = e

\* C13: when the bridge open of open() fails with ENOENT the call raises
\* PortNotFound, and when it fails with EACCES or EPERM the call raises
\* AccessDenied
C13_OpenErrnoMapping ==
  /\ OpenSyscallFailed(ENOENT) => res.err = SerialPortError("PORT_NOT_FOUND")
  /\ OpenSyscallFailed(EACCES) => res.err = SerialPortError("ACCESS_DENIED")
  /\ OpenSyscallFailed(EPERM) => res.err = SerialPortError("ACCESS_DENIED")

\* C13 witness: the bridge open failed with EPERM and open() raised the
\* unmapped bridge error
C13_Witness ==
  /\ OpenSyscallFailed(EPERM)
  /\ res.err = BridgeError("open", EPERM)
  /\ ~isOpen

\* C14: when the bridge open, a tcgetattr, the tcsetattr or the tcflush of
\* open() fails with an errno other than ENOENT, EACCES and EPERM, the call
\* raises a SerialPortError of kind SystemError
C14_OtherErrnoIsSystemError ==
  res.op \in {"open", "constructor"} =>
    \A i \in FailedCalls({"open", "tcgetattr", "tcsetattr", "tcflush"}) :
      calls[i].err \notin {ENOENT, EACCES, EPERM} =>
        res.err = SerialPortError("SYSTEM_ERROR")

\* C14 witness: a tcgetattr of open() failed with ENOTTY (25) and open()
\* raised PortNotFound
C14_Witness ==
  /\ res.op = "open"
  /\ \E i \in FailedCalls({"tcgetattr"}) : calls[i].err = ENOTTY
  /\ res.err = SerialPortError("PORT_NOT_FOUND")

\* positions of the bridge close calls of the last step
CloseCalls == {j \in 1..Len(calls) : calls[j].call = "close"}

\* C15: when the exclusive-lock ioctl of open() fails, whatever the errno,
\* the step holds exactly one bridge close, of the descriptor just obtained,
\* the descriptor is no longer in use, the session is Closed, and the call
\* raises AccessDenied
C15_LockFailureClosesOnce ==
  (res.op \in {"open", "constructor"}
     /\ \E i \in FailedCalls({"ioctl"}) : calls[i].arg = "TIOCEXCL") =>
    /\ res.err = SerialPortError("ACCESS_DENIED")
    /\ ~isOpen
    /\ fd = NULL
    /\ Cardinality(CloseCalls) = 1
    /\ \A j \in CloseCalls : calls[j].fd = calls[1].fd /\ j = Len(calls)
    /\ calls[1].fd \notin kfds

\* C15 witness: the lock ioctl failed with ENOTTY, the one close failed too,
\* and open() raised AccessDenied
C15_Witness ==
  /\ res.op = "open"
  /\ Len(calls) = 3
  /\ calls[2].arg = "TIOCEXCL" /\ calls[2].err = ENOTTY
  /\ calls[3].call = "close" /\ calls[3].err # 0
  /\ res.err = SerialPortError("ACCESS_DENIED")

\* C16 as stated: an open() that returns on a session that was already open
\* raises an error, and the session is open afterwards
C16_SecondOpenThrows ==
  [][(isOpen /\ res'.op = "open") => (res'.err.kind # "ok" /\ isOpen')]_vars

\* C16 as the code has it: an open() on a session that was already open
\* returns normally, and the session is open afterwards with the descriptor
\* it held
C16_SecondOpenReturns ==
  [][(isOpen /\ res'.op = "open") =>
       (res'.err = NoError /\ isOpen' /\ fd' = fd /\ fd' # NULL)]_vars

\* C16 witness: an open() returned normally without a bridge call, which only
\* the open() of an open session does
C16_Witness ==
  /\ res.op = "open"
  /\ res.err = NoError
  /\ calls = <<>>
  /\ isOpen
  /\ fd # NULL

\* C17: while another session with lock holds the device open, an open() of
\* this session, itself configured with lock, raises AccessDenied and leaves
\* the other session as it was, its descriptor still in use
C17_SecondLockedOpenDenied ==
  [][(peer # NoPeer /\ options.lock /\ ~isOpen /\ res'.op = "open") =>
       /\ res'.err = SerialPortError("ACCESS_DENIED")
       /\ ~isOpen'
       /\ peer' = peer
       /\ peer.fd \in kfds']_vars

\* C17 witness: with the device held in exclusive mode by the other session,
\* open() of this session raised the bridge error of the open syscall, EBUSY
C17_Witness ==
  /\ peer # NoPeer
  /\ excl
  /\ options.lock
  /\ res.op = "open"
  /\ res.err = BridgeError("open", EBUSY)
  /\ ~isOpen
  /\ peer.fd \in kfds

(* C18: for every rate of the baud table, after the baud step of
   configurePort on Linux (c_cflag & CBAUD) is the B<rate> constant of the
   control-flag table, both speed fields carry that code, and no other rate
   of the table has it; on Darwin the code is the rate itself. *)
C18_BaudCodeRecoversRate ==
  tpc = "baud" =>
    IF isDarwin(platform)
    THEN getBaudRateValue(platform, options.baudRate) = options.baudRate
    ELSE LET code == And(termios.c_cflag, CFLAG(platform).CBAUD)
         IN /\ code = CFLAG(platform).B[options.baudRate]
            /\ termios.c_ispeed = code
            /\ termios.c_ospeed = code
            /\ \A b \in BaudRates : CFLAG(platform).B[b] = code => b = options.baudRate

\* Linux, 57600 baud requested: the masked code is that of 50 baud
C18_Witness ==
  /\ tpc = "baud"
  /\ isLinux(platform)
  /\ options.baudRate = 57600
  /\ And(termios.c_cflag, CFLAG(platform).CBAUD) = CFLAG(platform).B[50]
  /\ termios.c_ispeed = 65537

(* C19: for both layouts, decoding the buffer writeTermios filled gives back
   the attributes that were encoded: the four mode words, the line
   discipline on Linux, the control characters and the two speeds. *)
C19_ParseInvertsWrite ==
  tpc = "encoded" =>
    /\ Len(termiosBuffer) = termiosSize(platform)
    /\ parseTermios(platform, termiosBuffer) = termios

\* a Linux record with a non-zero line discipline and distinct speeds,
\* encoded into a buffer that held other bytes
C19_Witness ==
  /\ tpc = "encoded"
  /\ isLinux(platform)
  /\ termios.c_line = 255
  /\ termios.c_iflag = 16909060
  /\ termios.c_ispeed # termios.c_ospeed
  /\ termiosBuffer[60] = 165

\* positions (from 1) of the bytes the codec does not model: bytes 52-55 of
\* a Darwin buffer, bytes 44-59 of a Linux buffer
Unmodeled(p) == IF isDarwin(p) THEN 53..56 ELSE 45..60

(* C20: writeTermios leaves bytes 52-55 of a Darwin buffer and bytes 44-59
   of a Linux buffer as they were, and configurePort encodes into the buffer
   tcgetattr filled, so the bytes tcsetattr hands to the kernel at those
   positions are the ones the kernel held. *)
C20_UnmodeledBytesPreserved ==
  [][/\ tpc' = "written" =>
          /\ Len(termiosBuffer') = termiosSize(platform)
          /\ \A i \in Unmodeled(platform) : termiosBuffer'[i] = termiosBuffer[i]
     /\ (tpc \in {"written", "speed"} /\ tpc' = "idle") =>
          /\ Len(kTermios') = termiosSize(platform)
          /\ \A i \in Unmodeled(platform) : kTermios'[i] = kTermios[i]]_vars

\* Darwin, 57600 baud: tcsetattr has handed over a buffer whose padding is
\* the non-zero padding the kernel held
C20_Witness ==
  /\ tpc = "idle"
  /\ isDarwin(platform)
  /\ options.baudRate = 57600
  /\ getUint(kTermios, 56, 8) = 57600
  /\ \A i \in Unmodeled(platform) : kTermios[i] = 165

(* C21: makeRaw is idempotent: applying it to attributes it has already
   been applied to changes nothing. *)
C21_MakeRawIdempotent ==
  [][tpc' = "twice" => termios' = termios]_vars

\* makeRaw applied twice to attributes whose first application changed every
\* field it touches
C21_Witness ==
  /\ tpc = "twice"
  /\ termios.c_iflag = 2147482132
  /\ termios.c_oflag = 2147483646
  /\ termios.c_lflag = 2608
  /\ termios.c_cc[CC(platform).VMIN + 1] = 0

\* the data of the frames the transform callback enqueued, in order
TransformData ==
  LET fs == SelectSeq(pFrames, LAMBDA f : f.by = "transform")
  IN [k \in 1..Len(fs) |-> fs[k].data]
\* the data of the frames the flush callback enqueued, in order
FlushData ==
  LET fs == SelectSeq(pFrames, LAMBDA f : f.by = "flush")
  IN [k \in 1..Len(fs) |-> fs[k].data]

\* the prefixes cut off a byte string at each delimiter occurrence, taking
\* the first occurrence, left to right
RECURSIVE Prefixes(_, _)
Prefixes(input, d) ==
  LET position == indexOf(input, d)
  IN IF position = NULL THEN <<>>
     ELSE <<SubSeq(input, 1, position)>> \o Prefixes(sliceFrom(input, position + Len(d)), d)
\* what is left of the byte string after the last occurrence taken
RECURSIVE Remainder(_, _)
Remainder(input, d) ==
  LET position == indexOf(input, d)
  IN IF position = NULL THEN input ELSE Remainder(sliceFrom(input, position + Len(d)), d)

\* one frame per prefix, with the delimiter when includeDelimiter is set
FramesOf(prefixes, cfg) ==
  [k \in 1..Len(prefixes) |->
     IF cfg.includeDelimiter THEN prefixes[k] \o cfg.delimiter ELSE prefixes[k]]

(* C22 as stated: the Delimiter parser emits, in input order, one frame for
   each delimiter occurrence it finds in the bytes pushed so far (the prefix,
   with the delimiter when includeDelimiter is set), and after each push the
   buffer is what follows the last occurrence and contains no delimiter. *)
C22_FramePerDelimiter ==
  (parser.kind = "delimiter" /\ pStream = "open") =>
    /\ TransformData = FramesOf(Prefixes(pWritten, parser.delimiter), parser)
    /\ pBuffer = Remainder(pWritten, parser.delimiter)
    /\ indexOf(pBuffer, parser.delimiter) = NULL

(* C22 amended: as above, except that without includeDelimiter an occurrence
   preceded by no bytes is consumed without a frame. *)
C22_FramePerNonEmptyPrefix ==
  (parser.kind = "delimiter" /\ pStream = "open") =>
    /\ TransformData =
         FramesOf(SelectSeq(Prefixes(pWritten, parser.delimiter),
                            LAMBDA x : Len(x) > 0 \/ parser.includeDelimiter), parser)
    /\ pBuffer = Remainder(pWritten, parser.delimiter)
    /\ indexOf(pBuffer, parser.delimiter) = NULL

\* 'a', two delimiters in a row, 'a', delimiter: two frames for three
\* occurrences
C22_Witness ==
  /\ parser.kind = "delimiter"
  /\ parser.delimiter = <<124>>
  /\ ~parser.includeDelimiter
  /\ pStream = "open"
  /\ pWritten = <<97, 124, 124, 97, 124>>
  /\ TransformData = <<<<97>>, <<97>>>>
  /\ pBuffer = <<>>

\* the chunk written by the step
ChunkWritten == SubSeq(pWritten', Len(pWritten) + 1, Len(pWritten'))

(* C23: for the Delimiter and the Readline parser, a push that makes the
   buffer longer than maxBufferSize errors the stream without emitting a
   frame, no later push and no end-of-stream emits one, the error is never
   left, and whenever the stream is not errored the buffer is at most
   maxBufferSize long. *)
C23_OverflowIsTerminal ==
  [][parser.kind \in {"delimiter", "readline"} =>
       /\ (pStream = "open" /\ pWritten' # pWritten
           /\ Len(pBuffer \o ChunkWritten) > parser.maxBufferSize) =>
             (pStream' = "errored" /\ pFrames' = pFrames)
       /\ pStream = "errored" => (pStream' = "errored" /\ pFrames' = pFrames)
       /\ pStream' # "errored" => Len(pBuffer') <= parser.maxBufferSize]_vars

\* a chunk with a delimiter overflowed the buffer of a Delimiter parser, a
\* further chunk with a delimiter was written, and no frame was emitted
C23_Witness ==
  /\ parser.kind = "delimiter"
  /\ parser.delimiter = <<124>>
  /\ parser.maxBufferSize = 3
  /\ pStream = "errored"
  /\ pBuffer = <<97, 124, 97, 124>>
  /\ pWritten = <<97, 124, 97, 124, 124>>
  /\ pFrames = <<>>

\* the concatenation of the data of a sequence of frames
RECURSIVE ConcatFrames(_)
ConcatFrames(fs) == IF fs = <<>> THEN <<>> ELSE Head(fs).data \o ConcatFrames(Tail(fs))

(* C24: for the ByteLength parser with length N, every frame a push emits
   has N bytes, after a push the buffer holds fewer than N bytes, the end of
   the stream emits the remainder as one frame exactly when it is not empty,
   and the frames concatenated (with the buffer, while the stream is open)
   are the bytes pushed. *)
C24_FixedLengthFrames ==
  parser.kind = "bytelength" =>
    /\ \A k \in 1..Len(TransformData) : Len(TransformData[k]) = parser.length
    /\ pStream = "open" =>
         /\ Len(pBuffer) < parser.length
         /\ FlushData = <<>>
         /\ ConcatFrames(pFrames) \o pBuffer = pWritten
    /\ pStream = "closed" =>
         /\ pBuffer = <<>>
         /\ LET rest == Len(pWritten) % parser.length
            IN FlushData = IF rest > 0
                           THEN <<SubSeq(pWritten, Len(pWritten) - rest + 1, Len(pWritten))>>
                           ELSE <<>>
         /\ ConcatFrames(pFrames) = pWritten

\* five bytes through a ByteLength(2) parser: two frames from the pushes and
\* a one-byte frame at the end of the stream
C24_Witness ==
  /\ parser.kind = "bytelength"
  /\ parser.length = 2
  /\ pStream = "closed"
  /\ pWritten = <<97, 124, 124, 97, 97>>
  /\ TransformData = <<<<97, 124>>, <<124, 97>>>>
  /\ FlushData = <<<<97>>>>

\* the frames the step enqueued
FramesAdded == SubSeq(pFrames', Len(pFrames) + 1, Len(pFrames'))

(* C25: at the end of the stream the Delimiter and the Readline parser emit
   exactly one frame when the buffer is not empty, the buffered bytes (for
   the Readline parser their text), and none when it is empty; the buffer is
   empty afterwards. *)
C25_TrailingFrame ==
  [][(parser.kind \in {"delimiter", "readline"} /\ pStream = "open" /\ pStream' = "closed") =>
       /\ pBuffer' = <<>>
       /\ FramesAdded =
            IF pBuffer = <<>> THEN <<>>
            ELSE IF parser.kind = "delimiter" THEN <<Frame("flush", pBuffer)>>
            ELSE <<Frame("flush", decode(<<>>, pBuffer, FALSE).text)>>]_vars

\* Readline parser, bytes C3 0A and then the end of the stream: the buffer
\* is empty at the end, and a frame (U+FFFD) is emitted
C25_Witness ==
  /\ parser.kind = "readline"
  /\ ~parser.includeDelimiter
  /\ pStream = "closed"
  /\ pWritten = <<195, 10>>
  /\ pFrames = <<Frame("flush", <<65533>>)>>

\* the bits of a modem-control word the model distinguishes
ModemBits == {1, 2, 4, 8, 16, 32, 64, 128, 256}

(* C26: on Linux a setSignals(partial) that reaches TIOCMSET hands it a word
   that differs from the word TIOCMGET returned only in the DTR bit when dtr
   is present and the RTS bit when rts is present, each as requested; every
   other bit is as read, and an empty request writes the word back as read. *)
C26_SetSignalsMergesRequestedBits ==
  [][\A signals \in SignalRequests :
       (SetSignals(signals) /\ res'.err = NoError /\ Len(calls') = 2) =>
         /\ isLinux(platform)
         /\ calls'[1].arg = "TIOCMGET"
         /\ calls'[2].arg = "TIOCMSET"
         /\ calls'[2].data = ToString(modem')
         /\ \A bit \in ModemBits :
              BitSet(modem', bit) =
                IF bit = TIOCM_DTR /\ signals.dtr # "undefined" THEN signals.dtr = "true"
                ELSE IF bit = TIOCM_RTS /\ signals.rts # "undefined" THEN signals.rts = "true"
                ELSE BitSet(modem, bit)
         /\ (signals.dtr = "undefined" /\ signals.rts = "undefined") => modem' = modem]_vars

\* a setSignals went through on a word with DSR, CD and CTS set: DTR is set,
\* RTS is clear and the input lines are as they were
C26_Witness ==
  /\ isLinux(platform)
  /\ res.op = "setSignals"
  /\ res.err = NoError
  /\ Len(calls) = 2
  /\ modem = TIOCM_DSR + TIOCM_CD + TIOCM_CTS + TIOCM_DTR

\* the streams of the running session: handed out since the port was last
\* opened and not cancelled
SessionStreams == {s \in 1..streamCount : streams[s].session /\ streams[s].state = "readable"}

\* C27: while the session is open and a stream it handed out has not been
\* cancelled, that stream is the one the getter holds, and an access to
\* `readable` returns the stream the getter holds, or a new stream when it
\* holds none (after a cancel or a close); getReader() fails on a stream whose
\* lock is held and succeeds on the same stream after releaseLock
C27_ReadableReturnsSessionStream ==
  [][/\ isOpen' => \A s \in SessionStreams' : readableStream' = s
     /\ (res'.op = "readable" /\ res'.err = NoError) =>
          /\ \A s \in SessionStreams : res'.ret = s
          /\ SessionStreams = {} => res'.ret = streamCount + 1 /\ streamCount' = streamCount + 1
     /\ res'.op = "getReader" =>
          (res'.err = NoError <=> ~streams[res'.ret].locked)]_vars

\* C27 witness: the port was reopened and handed out a stream; cancelling the
\* stream of the earlier session emptied the getter's cache although the
\* session's own stream was never cancelled, so the next access creates
\* another stream
C27_Witness ==
  /\ isOpen
  /\ readableStream = 0
  /\ \E s \in SessionStreams : ~streams[s].locked
  /\ \E s \in 1..streamCount : streams[s].state = "closed"

\* positions of the calls named c among the bridge calls of sequence cs
CallsNamed(cs, c) == {i \in 1..Len(cs) : cs[i].call = c}

\* C28: a successful open() keeps as its snapshot what its first tcgetattr
\* read, which is the device's attributes before the open changed any; the
\* snapshot stays as it is while the session is open; and close() passes
\* exactly that snapshot to one tcsetattr on the session's descriptor, before
\* the descriptor is closed
C28_CloseRestoresSnapshot ==
  [][/\ (~isOpen /\ isOpen') =>
          \E i \in CallsNamed(calls', "tcgetattr") :
            /\ \A j \in CallsNamed(calls', "tcgetattr") \cup CallsNamed(calls', "tcsetattr") : i <= j
            /\ calls'[i].data = devAttr
            /\ originalTermios' = calls'[i].data
     /\ (isOpen /\ isOpen') => originalTermios' = originalTermios
     /\ (isOpen /\ res'.op \in {"close", "dispose"}) =>
          /\ Cardinality(CallsNamed(calls', "tcsetattr")) = 1
          /\ \A i \in CallsNamed(calls', "tcsetattr") :
               /\ calls'[i].fd = fd
               /\ calls'[i].data = originalTermios
               /\ \A j \in CallsNamed(calls', "close") : i < j
               /\ \E j \in CallsNamed(calls', "close") : calls'[j].fd = fd]_vars

\* C28 witness: a second open/close cycle of one session: the restore of the
\* first close had failed, so the second open found the device as configured,
\* and the second close passed that later snapshot to tcsetattr and then
\* closed the descriptor
C28_Witness ==
  /\ res.op = "close"
  /\ ~isOpen
  /\ Len(calls) >= 2
  /\ calls[1].call = "tcsetattr"
  /\ calls[1].data = ConfiguredAttr
  /\ calls[Len(calls)].call = "close"

\* what a bridge call shows of itself apart from the data it carries
Shape(c) == <<c.call, c.fd, c.arg, c.err>>

\* the calls of an open() on descriptor f in which every call succeeds
OpenOrder(f, lock) ==
  <<<<"open", f, "O_RDWR|O_NOCTTY|O_NONBLOCK", 0>>>>
  \o (IF lock THEN <<<<"ioctl", f, "TIOCEXCL", 0>>>> ELSE <<>>)
  \o <<<<"tcgetattr", f, "", 0>>, <<"tcgetattr", f, "", 0>>,
       <<"tcsetattr", f, "TCSANOW", 0>>, <<"tcflush", f, "TCIOFLUSH", 0>>>>

\* C29: the session becomes open only in a step whose bridge calls are, in
\* this order and all successful, open with O_RDWR|O_NOCTTY|O_NONBLOCK, the
\* TIOCEXCL ioctl when lock is set, two tcgetattr, tcsetattr with TCSANOW and
\* tcflush with TCIOFLUSH; that step makes no bridge read or write, and a
\* bridge read or write that finds its descriptor open in the kernel finds
\* the session open on that descriptor
C29_OpenOrder ==
  [][/\ (~isOpen /\ isOpen') =>
          /\ res'.op \in {"open", "constructor"}
          /\ [i \in 1..Len(calls') |-> Shape(calls'[i])] = OpenOrder(fd', options'.lock)
          /\ bridge' = NoBridge
     /\ (res'.op \in {"open", "constructor"} /\ ~isOpen /\ calls' # <<>>
         /\ calls'[Len(calls')].call # "tcflush") => ~isOpen'
     /\ (bridge' # NoBridge /\ bridge'.fn = "write" /\ wFd \in kfds) => isOpen /\ fd = wFd
     /\ (bridge' # NoBridge /\ bridge'.fn = "read" /\ rFd \in kfds) => isOpen /\ fd = rFd]_vars

\* C29 witness: an open() without the exclusive lock has succeeded with its
\* five calls, and a write started afterwards is in flight on the descriptor
C29_Witness ==
  /\ isOpen
  /\ ~options.lock
  /\ wpc = "inflight"
  /\ wFd = fd
  /\ fd \in kfds

\* bit b of the c_cflag word c is set
Has(c, b) == And(c, b) = b

\* C30: once configurePort has run raw mode and the configuration steps, the
\* parity bits of c_cflag are those of the requested parity whatever the
\* kernel's prior value was: none has PARENB clear; even has PARENB set and
\* PARODD clear; odd has PARENB and PARODD set; mark has PARENB, PARODD and
\* CMSPAR set; space has PARENB and CMSPAR set and PARODD clear; and on Linux
\* even and odd have CMSPAR clear
C30_ParityBitsExact ==
  tpc = "framed" =>
    LET F == CFLAG(platform)
        c == termios.c_cflag
        par == options.parity
    IN  /\ Has(c, F.PARENB) <=> par # "none"
        /\ par \in {"even", "space"} => ~Has(c, F.PARODD)
        /\ par \in {"odd", "mark"} => Has(c, F.PARODD)
        /\ isLinux(platform) =>
             /\ par \in {"mark", "space"} => Has(c, F.CMSPAR)
             /\ par \in {"even", "odd"} => ~Has(c, F.CMSPAR)

\* C30 witness: on Linux the kernel's prior c_cflag had CMSPAR set, the
\* session asked for even parity, and the configured c_cflag has PARENB set,
\* PARODD clear and CMSPAR still set
C30_Witness ==
  /\ tpc = "framed"
  /\ isLinux(platform)
  /\ options.parity = "even"
  /\ Has(termios.c_cflag, CFLAG(platform).PARENB)
  /\ ~Has(termios.c_cflag, CFLAG(platform).PARODD)
  /\ Has(termios.c_cflag, CFLAG(platform).CMSPAR)

\* C31: once configurePort has run raw mode and the configuration steps,
\* IXON and IXOFF are set exactly when xon or xoff is requested and IXANY
\* exactly when xany is requested together with xon or xoff, whatever the
\* kernel's prior c_iflag was
C31_FlowControlBitsExact ==
  tpc = "framed" =>
    LET i == termios.c_iflag
        d == WithDefaults(options)
    IN  /\ Has(i, IFLAG.IXON) <=> (d.xon \/ d.xoff)
        /\ Has(i, IFLAG.IXOFF) <=> (d.xon \/ d.xoff)
        /\ Has(i, IFLAG.IXANY) <=> (d.xany /\ (d.xon \/ d.xoff))

\* C31 witness: the kernel's prior c_iflag had IXANY set, the session asked
\* for xon without xany, and the configured c_iflag has IXON, IXOFF and
\* still IXANY
C31_Witness ==
  /\ tpc = "framed"
  /\ WithDefaults(options).xon
  /\ ~WithDefaults(options).xany
  /\ Has(termios.c_iflag, IFLAG.IXON)
  /\ Has(termios.c_iflag, IFLAG.IXOFF)
  /\ Has(termios.c_iflag, IFLAG.IXANY)

\* C32: once configurePort has run raw mode and the configuration steps, on
\* either platform and whatever the kernel's prior attributes were, the CSIZE
\* field of c_cflag is the CS value of the requested dataBits, CSTOPB is set
\* iff stopBits is 2, CRTSCTS iff rtscts, HUPCL iff hupcl, CREAD and CLOCAL
\* are set, and c_cc[VMIN] and c_cc[VTIME] are 0
C32_FramingBitsExact ==
  tpc = "framed" =>
    LET F == CFLAG(platform)
        c == termios.c_cflag
        d == WithDefaults(options)
    IN  /\ And(c, F.CSIZE) = (CASE options.dataBits = 5 -> F.CS5
                                [] options.dataBits = 6 -> F.CS6
                                [] options.dataBits = 7 -> F.CS7
                                [] options.dataBits = 8 -> F.CS8)
        /\ Has(c, F.CSTOPB) <=> options.stopBits = 2
        /\ And(c, F.CRTSCTS) = (IF d.rtscts THEN F.CRTSCTS ELSE 0)
        /\ Has(c, F.HUPCL) <=> d.hupcl
        /\ Has(c, F.CREAD)
        /\ Has(c, F.CLOCAL)
        /\ termios.c_cc[CC(platform).VMIN + 1] = 0
        /\ termios.c_cc[CC(platform).VTIME + 1] = 0

\* C32 witness: on Linux the kernel's prior c_cflag had every bit set and the
\* session asked for 6 data bits, 1 stop bit, no rtscts and no hupcl: the
\* configured c_cflag has CS6, and CSTOPB, CRTSCTS and HUPCL clear
C32_Witness ==
  /\ tpc = "framed"
  /\ isLinux(platform)
  /\ getUint32(kTermios, 8) = 0 - 1
  /\ options.dataBits = 6
  /\ options.stopBits = 1
  /\ ~WithDefaults(options).rtscts
  /\ ~WithDefaults(options).hupcl
  /\ And(termios.c_cflag, CFLAG(platform).CSIZE) = CFLAG(platform).CS6
  /\ termios.c_cflag >= 0

\* the data of all frames enqueued so far, in order
AllData == [k \in 1..Len(pFrames) |-> pFrames[k].data]

\* what a parser with configuration cfg emits when input arrives as one
\* chunk: the frames of the push, and the frame of the end of the stream
FeedWhole(cfg, input) ==
  LET r == IF cfg.kind = "bytelength" THEN ByteLengthScan(input, <<>>, cfg)
           ELSE DelimiterScan(input, <<>>, cfg)
  IN [transform |-> [k \in 1..Len(r.out) |-> r.out[k].data],
      flush |-> IF FlushEmits(r.buffer) THEN <<r.buffer>> ELSE <<>>]

(* C33: for the Delimiter and the ByteLength parser, as long as the stream
   has not errored, the frames emitted by the pushes so far are those the
   same bytes emit when they arrive as one chunk, and after the end of the
   stream all frames are those of that one chunk followed by the end of the
   stream: the split into chunks does not show. *)
C33_ChunkingInvisible ==
  (parser.kind \in {"delimiter", "bytelength"} /\ pStream \in {"open", "closed"}) =>
    LET whole == FeedWhole(parser, pWritten)
    IN  /\ TransformData = whole.transform
        /\ pStream = "closed" => AllData = whole.transform \o whole.flush

\* a two-byte delimiter split across a chunk boundary: the pushes ended after
\* 'a', '|', and the rest brought the second '|', 'a' and the end of the
\* stream
C33_Witness ==
  /\ parser.kind = "delimiter"
  /\ parser.delimiter = <<124, 124>>
  /\ ~parser.includeDelimiter
  /\ parser.maxBufferSize = 3
  /\ pStream = "closed"
  /\ pWritten = <<97, 124, 124, 97, 97>>
  /\ AllData = <<<<97>>, <<97, 97>>>>

\* the input has a piece longer than the maximum: a delimiter-terminated
\* frame (counted with its delimiter) or the remainder after the last one
HasLongPiece(input, cfg) ==
  \/ \E k \in 1..Len(Prefixes(input, cfg.delimiter)) :
       Len(Prefixes(input, cfg.delimiter)[k]) + Len(cfg.delimiter) > cfg.maxBufferSize
  \/ Len(Remainder(input, cfg.delimiter)) > cfg.maxBufferSize

(* C34: a push errors the stream of a Delimiter or Readline parser only when
   the input so far has a delimiter-terminated frame or a remainder longer
   than maxBufferSize, and only when what is pending after the frames are
   cut off is longer than maxBufferSize. *)
C34_OverflowOnlyOnLongFrames ==
  [][(parser.kind \in {"delimiter", "readline"} /\ pStream = "open" /\ pStream' = "errored") =>
       /\ HasLongPiece(pWritten', parser)
       /\ Len(Remainder(concat(pBuffer, ChunkWritten), parser.delimiter)) > parser.maxBufferSize]_vars

\* one chunk 'a|a|a' through a Delimiter('|') parser with maxBufferSize 3:
\* every frame and the remainder are one byte long, and the stream errored
C34_Witness ==
  /\ parser.kind = "delimiter"
  /\ parser.delimiter = <<124>>
  /\ parser.maxBufferSize = 3
  /\ pStream = "errored"
  /\ pWritten = <<97, 124, 97, 124, 97>>
  /\ pBuffer = pWritten
  /\ pFrames = <<>>
  /\ ~HasLongPiece(pWritten, parser)

\* a write() task is suspended: awaiting its bridge write, or asleep after a
\* would-block result
WriteSuspended == wpc \in {"inflight", "sleep"}

\* a step of the suspended write() task
WriteResumes == WriteSuspended /\ writeVars' # writeVars

\* close() has completed since the suspended write() started: the session is
\* not open (write() starts only on an open session), or the last step
\* opened it again
ClosedUnderWrite ==
  /\ WriteSuspended
  /\ \/ ~isOpen
     \/ res.op = "open" /\ res.err = NoError /\ calls # <<>>

(* C35: when a suspended write() resumes after close() has completed, it
   issues no bridge write call, and when it ends it ends with a PortClosed
   failure. *)
C35_WriteStopsAfterClose ==
  [][(ClosedUnderWrite /\ WriteResumes) =>
       /\ CallsNamed(calls', "write") = {}
       /\ wpc' = "idle" => res'.op = "write" /\ res'.err = PortClosed]_vars

\* C35 witness: close() ran while a write() was suspended; the write resumed,
\* called the bridge with the null descriptor and ended with a TypeError
C35_Witness ==
  /\ ~isOpen
  /\ res.op = "write"
  /\ res.err = FfiTypeError("write")
  /\ CallsNamed(calls, "write") # {}
  /\ wpc = "idle"

(* C36: no bridge read is issued on a descriptor number that is closed: a
   stream handed out before close() stops reading once close() has
   completed. *)
C36_NoReadOnClosedDescriptor ==
  [][\A i \in CallsNamed(calls', "read") : calls'[i].fd \in kfds]_vars

\* C36 witness: the session is closed, and a pull on the stream it had handed
\* out called the bridge read on the closed descriptor number, which raised
\* EBADF and errored the stream
C36_Witness ==
  /\ ~isOpen
  /\ kfds = {}
  /\ Len(calls) = 1
  /\ calls[1].call = "read"
  /\ calls[1].err = EBADF
  /\ \E id \in 1..streamCount : streams[id].fd = calls[1].fd /\ streams[id].state = "errored"

(* C37: open() on a session that is already open issues no bridge call and
   leaves the descriptor, the attribute snapshot, the cached stream and the
   kernel's side as they were; the snapshot is the same for as long as the
   session stays open, and the close() that ends the session hands that
   snapshot to tcsetattr. *)
C37_OpenOnOpenChangesNothing ==
  [][/\ (isOpen /\ res'.op = "open") =>
          /\ calls' = <<>>
          /\ isOpen'
          /\ fd' = fd
          /\ originalTermios' = originalTermios
          /\ readableStream' = readableStream
          /\ streams' = streams
          /\ kfds' = kfds
          /\ devAttr' = devAttr
     /\ (isOpen /\ isOpen') => originalTermios' = originalTermios
     /\ (isOpen /\ ~isOpen') =>
          /\ CallsNamed(calls', "tcsetattr") # {}
          /\ \A i \in CallsNamed(calls', "tcsetattr") : calls'[i].data = originalTermios]_vars

\* C37 witness: open() returned on a session that was open, with a stream
\* cached and with the device configured differently from the snapshot, so
\* that a fresh snapshot would have differed from the one kept
C37_Witness ==
  /\ res.op = "open"
  /\ res.err = NoError
  /\ calls = <<>>
  /\ isOpen
  /\ readableStream # 0
  /\ originalTermios # NoAttr
  /\ originalTermios # devAttr

(* C38: after every public operation the session is open exactly when it
   holds a descriptor, the kernel has one descriptor of the session in use
   when it is open and none otherwise, and close() on a session that is not
   open calls nothing. *)
C38_OpenIffDescriptor ==
  [][/\ isOpen' <=> fd' # NULL
     /\ Cardinality(kfds') = (IF isOpen' THEN 1 ELSE 0)
     /\ isOpen' => kfds' = {fd'}
     /\ (~isOpen /\ res'.op = "close") => (calls' = <<>> /\ ~isOpen' /\ kfds' = kfds)]_vars

\* C38 witness: close() returned without a bridge call on a session that is
\* not open: an earlier open() had failed after it took its snapshot, the
\* snapshot is still there, and no descriptor is held or in use
C38_Witness ==
  /\ res.op = "close"
  /\ res.err = NoError
  /\ calls = <<>>
  /\ ~isOpen
  /\ fd = NULL
  /\ kfds = {}
  /\ originalTermios # NoAttr

(* C39: an open() that raises leaves the device's terminal attributes as
   they were before the call; when the failure came after tcsetattr had
   written the new attributes, a tcsetattr with the snapshot precedes the
   close of the descriptor. *)
C39_FailedOpenRestoresAttributes ==
  [][(~isOpen /\ res'.op = "open" /\ res'.err.kind # "ok") =>
       /\ devAttr' = devAttr
       /\ (\E i \in CallsNamed(calls', "tcflush") : calls'[i].err # 0) =>
            \E i \in CallsNamed(calls', "tcsetattr"), j \in CallsNamed(calls', "close") :
              /\ calls'[i].data = devAttr
              /\ i < j]_vars

\* C39 witness: open() raised the failure of its queue flush; tcsetattr had
\* succeeded before, the descriptor was closed, and the device holds the
\* attributes that open() configured, which differ from the snapshot
C39_Witness ==
  /\ res.op = "open"
  /\ res.err.kind # "ok"
  /\ ~isOpen
  /\ kfds = {}
  /\ \E i \in CallsNamed(calls, "tcsetattr") : calls[i].err = 0 /\ calls[i].data = ConfiguredAttr
  /\ \E i \in CallsNamed(calls, "tcflush") : calls[i].err # 0
  /\ calls[Len(calls)].call = "close"
  /\ devAttr = ConfiguredAttr
  /\ originalTermios # devAttr

\* errno values with which a bridge write raises
WriteHardErrors == {BridgeError("write", e) : e \in (IoErrnos \cup {EBADF}) \ {EAGAIN}}

(* C40: on a session that stays open, a write() task ends, given that the
   device accepts a byte after at most MaxRetry would-block results; it ends
   with a hard error of the bridge or by returning the length of the data
   with every byte accepted in order. Each bridge write carries at most
   WRITE_CHUNK_SIZE bytes, starting at the first byte not yet accepted; a
   would-block result leaves the offset where it was and is followed, after
   the sleep, by a bridge write from the same offset; a write of empty data
   on an open session returns 0 without a bridge call. *)
C40_WriteTerminates ==
  /\ [][/\ \A i \in CallsNamed(calls', "write") :
             /\ wpc' = "inflight"
             /\ Len(calls'[i].data) \in 1..WRITE_CHUNK_SIZE
             /\ wOff' = Len(wAcc')
             /\ wAcc' = SubSeq(wData', 1, wOff')
             /\ calls'[i].data =
                  SubSeq(wData', wOff' + 1, Min(Len(wData'), wOff' + WRITE_CHUNK_SIZE))
             /\ calls'[i].fd = fd'
        /\ (wpc = "inflight" /\ wpc' = "sleep") =>
             (calls' = <<>> /\ bridge'.ret = 0 /\ wOff' = wOff /\ wData' = wData)
        /\ (wpc = "sleep" /\ wpc' # "sleep") =>
             /\ wpc' = "inflight"
             /\ wOff' = wOff /\ wData' = wData
             /\ Len(calls') = 1 /\ calls'[1].call = "write"
        /\ (wpc # "idle" /\ wpc' = "idle") =>
             /\ res'.op = "write"
             /\ \/ res'.err \in WriteHardErrors
                \/ /\ res'.err = NoError
                   /\ res'.ret = Len(wData)
                   /\ res'.out = wData
        /\ (wpc = "idle" /\ isOpen /\ res'.op = "write" /\ res'.inp = <<>>) =>
             (res'.err = NoError /\ res'.ret = 0 /\ calls' = <<>> /\ wpc' = "idle")]_vars
  /\ [](wpc # "idle" => <>(wpc = "idle"))

\* C40 witness: a write() of MaxData bytes returned its length after a
\* would-block result, with more than one chunk
C40_Witness ==
  /\ res.op = "write"
  /\ res.err = NoError
  /\ res.ret = MaxData
  /\ res.out = res.inp
  /\ res.retries = MaxRetry
  /\ MaxData > WRITE_CHUNK_SIZE
  /\ wpc = "idle"
  /\ isOpen

====
